---- MODULE Spec2Model ----
(***************************************************************************)
(* Model of the limit-order matching engine of matcher/src/orderbook.rs:   *)
(* one OrderBook (two OrderbookSides of PriceLevels keyed by price tick),  *)
(* its add_order / cancel_order / get_depth operations and the counters    *)
(* it keeps (specification Spec), and of the order gateway of              *)
(* http-server/src: the add_order and cancel_order handlers over one       *)
(* book and the ledger of user funds, each request running to its          *)
(* response (specification GatewaySpec); of the handlers as concurrent     *)
(* tasks that take the order_books lock of main.rs, over the two books     *)
(* (specification ServerSpec); and of the /notifications connections of    *)
(* websocket.rs beside the gateway (specification NotifySpec); and of the  *)
(* Mutexes the handlers take and release (specifications LockSpec and      *)
(* FairLockSpec).                                                          *)
(*                                                                         *)
(* Order.timestamp and Trade.timestamp are wall-clock readings that no     *)
(* branch of the engine inspects; they are left out of the records.        *)
(***************************************************************************)
EXTENDS Integers, Sequences, FiniteSets, TLC

(***************************************************************************)
(* Bounds of the model.                                                    *)
(***************************************************************************)
\* price ticks offered to add_order / cancel_order range over 0..MaxTick
MaxTick == 2
\* quantities offered to add_order range over 1..MaxQty
MaxQty == 2
\* add_order is called at most MaxOrders times (order_id_counter <= MaxOrders)
MaxOrders == 4
\* user ids range over 1..NumUsers
NumUsers == 1
\* get_depth is asked for 0..MaxDepth levels
MaxDepth == 2
\* the accounts of the gateway have user ids 1..NumAccounts
NumAccounts == 2
\* the gateway passes at most MaxPlaced orders to the book
MaxPlaced == 3
\* UserFunds::default in the units of the model. The code keeps balances as
\* f64 amounts (100 BTC, 100,000 USD) and divides quantities and prices by
\* tick_multiplier; the model counts base in quantity ticks and USD in
\* quantity ticks x price ticks, exactly, and starts every account with
\* InitialBase and InitialUsd of them, enough for one order of the largest
\* quantity at the highest price.
InitialBase == 2
InitialUsd == 4
\* ServerSpec runs NumTasks concurrent requests, one per task
NumTasks == 2
\* NotifySpec holds at most MaxSockets /notifications connections at a time
\* and passes at most MaxNotified orders to the book
MaxSockets == 2
MaxNotified == 2

Ticks == 0..MaxTick
Quantities == 1..MaxQty
Users == 1..NumUsers
OrderIds == 0..MaxOrders
Accounts == 1..NumAccounts

(***************************************************************************)
(* types.rs                                                                *)
(***************************************************************************)
OrderSide == {"Bid", "Ask"}
TimeInForce == {"GTC", "FOK", "IOC"}

\* Option<T>: None, Some(v)
None == [is_some |-> FALSE, v |-> 0]
Some(x) == [is_some |-> TRUE, v |-> x]

\* Option<Order> needs a record in the v field of None
NoOrder == [is_some |-> FALSE,
            v |-> [id |-> 0, user_id |-> 0, price_tick |-> 0, quantity |-> 0,
                   quantity_filled |-> 0, side |-> "Bid", time_in_force |-> "GTC",
                   is_cancelled |-> FALSE]]

Order(id, user_id, price_tick, quantity, side, tif) ==
    [id |-> id, user_id |-> user_id, price_tick |-> price_tick,
     quantity |-> quantity, quantity_filled |-> 0, side |-> side,
     time_in_force |-> tif, is_cancelled |-> FALSE]

Trade(id, taker, maker, quantity_to_fill) ==
    [id |-> id, taker_order_id |-> taker.id, maker_order_id |-> maker.id,
     taker_user_id |-> taker.user_id, maker_user_id |-> maker.user_id,
     quantity |-> quantity_to_fill, price_tick |-> maker.price_tick]

(***************************************************************************)
(* Helpers for ordered maps and ranges                                     *)
(***************************************************************************)
Min(a, b) == IF a <= b THEN a ELSE b
SetMax(S) == CHOOSE x \in S : \A y \in S : y <= x
SetMin(S) == CHOOSE x \in S : \A y \in S : x <= y

\* a..=b as the vector the code collects (empty when a > b)
Asc(a, b) == [i \in 1..(IF b >= a THEN b - a + 1 ELSE 0) |-> a + i - 1]
\* (a..=b).rev()
Desc(a, b) == [i \in 1..(IF b >= a THEN b - a + 1 ELSE 0) |-> b - i + 1]

\* BTreeMap::remove
RemoveKey(f, k) == [t \in DOMAIN f \ {k} |-> f[t]]
\* BTreeMap insert / overwrite
PutKey(f, k, val) == [t \in DOMAIN f \cup {k} |-> IF t = k THEN val ELSE f[t]]

Residual(o) == o.quantity - o.quantity_filled

(***************************************************************************)
(* State                                                                   *)
(***************************************************************************)
VARIABLES
    ask_side,          \* OrderbookSide: best_tick, worst_tick, higher_is_better, levels
    bid_side,
    order_id_counter,
    trade_id_counter,
    total_orders,
    panic,             \* "none", or the panic that ended the last call
    last,              \* the last call made on the book and what it returned
    funds,             \* InMemoryStorage: the UserFunds of each account
    order_books,       \* AppState.order_books: the OrderBook of each symbol
    order_books_lock,  \* the task that holds the Mutex of order_books, or 0
    accounts,          \* InMemoryStorage with the balances of both symbols
    pc,                \* where each task is in its handler
    req,               \* the request of each task and the handler's locals
    notification_manager, \* user id -> the connection its Sender feeds, or 0
    sockets,           \* connection -> the user authenticated on it, or 0
    channel,           \* connection -> the notifications sent to its Sender
    accounts_lock,     \* the task that holds the Mutex of InMemoryStorage.accounts, or 0
    notification_manager_lock \* the task that holds the Mutex of the manager, or 0

\* the state of the concurrent tasks and the state of the connections
server_vars == <<order_books, order_books_lock, accounts, pc, req>>
ws_vars == <<notification_manager, sockets, channel>>
\* the Mutexes beside that of order_books
lock_vars == <<accounts_lock, notification_manager_lock>>

vars == <<ask_side, bid_side, order_id_counter, trade_id_counter, total_orders,
          panic, last, funds, order_books, order_books_lock, accounts, pc, req,
          notification_manager, sockets, channel, accounts_lock,
          notification_manager_lock>>

\* the OrderBook as one value
Book == [ask_side |-> ask_side, bid_side |-> bid_side,
         order_id_counter |-> order_id_counter,
         trade_id_counter |-> trade_id_counter,
         total_orders |-> total_orders]

\* BTreeMap::new(): no key
EmptyLevels == [t \in {} |-> 0]

EmptySide(higher) == [best_tick |-> None, worst_tick |-> None,
                      higher_is_better |-> higher, levels |-> EmptyLevels]

\* OrderBook::new
new == [ask_side |-> EmptySide(FALSE), bid_side |-> EmptySide(TRUE),
        order_id_counter |-> 0, trade_id_counter |-> 0, total_orders |-> 0]

OppositeOf(side) == IF side = "Bid" THEN "Ask" ELSE "Bid"
SideOf(b, side) == IF side = "Bid" THEN b.bid_side ELSE b.ask_side
WithSide(b, side, s) ==
    IF side = "Bid" THEN [b EXCEPT !.bid_side = s] ELSE [b EXCEPT !.ask_side = s]

get_opposite_best_tick(b, side) ==
    IF side = "Bid" THEN b.ask_side.best_tick ELSE b.bid_side.best_tick

(***************************************************************************)
(* OrderBook::get_tick_iter_bounds                                         *)
(***************************************************************************)
\* u64::MAX, the end of a market buy's range when the ask side caches no
\* worst tick: a tick above every tick of the model
U64_MAX == MaxTick + 1

\* Option::unwrap on a tick
Unwrap(o) == o.v
UnwrapOr(o, d) == IF o.is_some THEN o.v ELSE d

\* get_tick_iter_bounds without the test that a limit order's price crosses
get_tick_iter_bounds_no_cross(b, order) ==
    LET opposite_side == IF order.side = "Bid" THEN b.ask_side ELSE b.bid_side
        start_tick == Unwrap(opposite_side.best_tick)
        end_tick == IF order.price_tick = 0
                    THEN IF order.side = "Ask"
                         THEN UnwrapOr(b.bid_side.worst_tick, 0)
                         ELSE UnwrapOr(b.ask_side.worst_tick, U64_MAX)
                    ELSE order.price_tick
    IN  <<start_tick, end_tick>>

\* bounds that stop a crossing limit order at the best opposite tick
get_tick_iter_bounds_best_only(b, order) ==
    LET opposite_side == IF order.side = "Bid" THEN b.ask_side ELSE b.bid_side
        start_tick == Unwrap(opposite_side.best_tick)
        end_tick == IF order.price_tick = 0
                    THEN IF order.side = "Ask"
                         THEN UnwrapOr(b.bid_side.worst_tick, 0)
                         ELSE UnwrapOr(b.ask_side.worst_tick, U64_MAX)
                    ELSE start_tick
    IN  IF order.price_tick > 0 /\ order.side = "Bid" /\ start_tick > order.price_tick
        THEN <<0, 0>>
        ELSE IF order.price_tick > 0 /\ order.side = "Ask"
                /\ start_tick < order.price_tick
        THEN <<0, 0>>
        ELSE <<start_tick, end_tick>>

get_tick_iter_bounds(b, order) ==
    LET opposite_side == IF order.side = "Bid" THEN b.ask_side ELSE b.bid_side
        start_tick == Unwrap(opposite_side.best_tick)
        end_tick == IF order.price_tick = 0
                    THEN IF order.side = "Ask"
                         THEN UnwrapOr(b.bid_side.worst_tick, 0)
                         ELSE UnwrapOr(b.ask_side.worst_tick, U64_MAX)
                    ELSE order.price_tick
    IN  IF order.price_tick > 0 /\ order.side = "Bid" /\ start_tick > end_tick
        THEN <<0, 0>>
        ELSE IF order.price_tick > 0 /\ order.side = "Ask" /\ start_tick < end_tick
        THEN <<0, 0>>
        ELSE <<start_tick, end_tick>>

(***************************************************************************)
(* OrderBook::can_fill_fok                                                 *)
(***************************************************************************)
\* the scan with > in place of >=: an exact fill is taken for infeasible
RECURSIVE fok_scan_strict(_, _, _, _)
fok_scan_strict(levels, ticks, qty_till_price, quantity) ==
    IF Len(ticks) = 0 THEN FALSE
    ELSE IF Head(ticks) \in DOMAIN levels
    THEN IF qty_till_price + levels[Head(ticks)].total_quantity > quantity
         THEN TRUE
         ELSE fok_scan_strict(levels, Tail(ticks),
                              qty_till_price + levels[Head(ticks)].total_quantity,
                              quantity)
    ELSE IF qty_till_price > quantity THEN TRUE
    ELSE fok_scan_strict(levels, Tail(ticks), qty_till_price, quantity)

\* the for loop of can_fill_fok over the ticks still to visit
RECURSIVE fok_scan(_, _, _, _)
fok_scan(levels, ticks, qty_till_price, quantity) ==
    IF Len(ticks) = 0 THEN FALSE
    ELSE IF Head(ticks) \in DOMAIN levels
    THEN IF qty_till_price + levels[Head(ticks)].total_quantity >= quantity
         THEN TRUE
         ELSE fok_scan(levels, Tail(ticks),
                       qty_till_price + levels[Head(ticks)].total_quantity, quantity)
    ELSE IF qty_till_price >= quantity THEN TRUE
    ELSE fok_scan(levels, Tail(ticks), qty_till_price, quantity)

\* can_fill_fok once the bounds <<start_tick, end_tick>> are known
fok_between(levels, bounds, quantity) ==
    IF bounds[1] <= bounds[2]
    THEN fok_scan(levels, Asc(bounds[1], bounds[2]), 0, quantity)
    ELSE fok_scan(levels, Desc(bounds[2], bounds[1]), 0, quantity)

can_fill_fok(b, order) ==
    IF ~get_opposite_best_tick(b, order.side).is_some THEN FALSE
    ELSE fok_between(SideOf(b, OppositeOf(order.side)).levels,
                     get_tick_iter_bounds(b, order), order.quantity)

(***************************************************************************)
(* OrderBook::update_side_ticks                                            *)
(***************************************************************************)
\* update_side_ticks that only clears the ticks of an empty side
update_side_ticks_stale(b, side) ==
    LET s == SideOf(b, side)
    IN  IF DOMAIN s.levels = {}
        THEN WithSide(b, side, [s EXCEPT !.best_tick = None, !.worst_tick = None])
        ELSE b

update_side_ticks(b, side) ==
    LET s == SideOf(b, side)
        keys == DOMAIN s.levels
    IN  IF keys = {}
        THEN WithSide(b, side, [s EXCEPT !.best_tick = None, !.worst_tick = None])
        ELSE IF s.higher_is_better
        THEN WithSide(b, side, [s EXCEPT !.best_tick = Some(SetMax(keys)),
                                         !.worst_tick = Some(SetMin(keys))])
        ELSE WithSide(b, side, [s EXCEPT !.best_tick = Some(SetMin(keys)),
                                         !.worst_tick = Some(SetMax(keys))])

\* OrderBook::update_price_ticks_after_match
update_price_ticks_after_match(b, order_side) ==
    IF order_side = "Ask" THEN update_side_ticks(b, "Bid")
    ELSE update_side_ticks(b, "Ask")

(***************************************************************************)
(* OrderBook::add_limit_order                                              *)
(***************************************************************************)
\* add_limit_order that puts the order at the front of its level
add_limit_order_front(b, order) ==
    LET s == SideOf(b, order.side)
        old == IF order.price_tick \in DOMAIN s.levels
               THEN s.levels[order.price_tick]
               ELSE [orders |-> << >>, total_quantity |-> 0]
        level == [orders |-> <<order>> \o old.orders,
                  total_quantity |-> old.total_quantity + Residual(order)]
        levels == PutKey(s.levels, order.price_tick, level)
        keys == DOMAIN levels
        s2 == IF s.higher_is_better
              THEN [s EXCEPT !.levels = levels,
                             !.best_tick = Some(SetMax(keys)),
                             !.worst_tick = Some(SetMin(keys))]
              ELSE [s EXCEPT !.levels = levels,
                             !.best_tick = Some(SetMin(keys)),
                             !.worst_tick = Some(SetMax(keys))]
    IN  [WithSide(b, order.side, s2) EXCEPT !.total_orders = b.total_orders + 1]

add_limit_order(b, order) ==
    LET s == SideOf(b, order.side)
        old == IF order.price_tick \in DOMAIN s.levels
               THEN s.levels[order.price_tick]
               ELSE [orders |-> << >>, total_quantity |-> 0]
        level == [orders |-> Append(old.orders, order),
                  total_quantity |-> old.total_quantity + Residual(order)]
        levels == PutKey(s.levels, order.price_tick, level)
        keys == DOMAIN levels
        s2 == IF s.higher_is_better
              THEN [s EXCEPT !.levels = levels,
                             !.best_tick = Some(SetMax(keys)),
                             !.worst_tick = Some(SetMin(keys))]
              ELSE [s EXCEPT !.levels = levels,
                             !.best_tick = Some(SetMin(keys)),
                             !.worst_tick = Some(SetMax(keys))]
    IN  [WithSide(b, order.side, s2) EXCEPT !.total_orders = b.total_orders + 1]

(***************************************************************************)
(* OrderBook::match_order                                                  *)
(***************************************************************************)
\* the order in which match_order visits the ticks between its bounds
tick_range(order, start_tick, end_tick) ==
    IF order.price_tick = 0 /\ order.side = "Ask"
    THEN Desc(end_tick, start_tick)
    ELSE IF order.price_tick = 0 /\ order.side = "Bid"
    THEN Asc(start_tick, end_tick)
    ELSE IF start_tick >= end_tick
    THEN Asc(end_tick, start_tick)
    ELSE Asc(start_tick, end_tick)

\* the set of ticks of a side whose level holds quantity
live_ticks(levels) == {t \in DOMAIN levels : levels[t].total_quantity > 0}

\* the best key, under the side's polarity, among the levels that hold
\* quantity (recorded with each trade; None when no level holds any)
best_live_tick(side) ==
    IF live_ticks(side.levels) = {} THEN None
    ELSE IF side.higher_is_better THEN Some(SetMax(live_ticks(side.levels)))
    ELSE Some(SetMin(live_ticks(side.levels)))

\* The state m of the matching loop: the opposite side (opp), the taker
\* (order), the trades emitted, the two counters the loop changes, the level
\* the loop holds (its orders and total_quantity), whether 'outer was left
\* (done), the panic raised. fills[i] is the best live tick of the opposite
\* side at the moment trades[i] was made; dropped lists the ids of the
\* cancelled orders the loop popped and discarded.
start_loop(b, order) ==
    [opp |-> SideOf(b, OppositeOf(order.side)), order |-> order,
     trades |-> << >>, fills |-> << >>, dropped |-> << >>,
     trade_id_counter |-> b.trade_id_counter, total_orders |-> b.total_orders,
     orders |-> << >>, total_quantity |-> 0, done |-> FALSE, panic |-> "none"]

\* writes the level held by the loop back into the map
StoreLevel(m, tick) ==
    [m EXCEPT !.opp.levels = PutKey(@, tick, [orders |-> m.orders,
                                               total_quantity |-> m.total_quantity])]

\* after_fill with push_back in place of push_front
after_fill_back(m, resting_order) ==
    IF resting_order.quantity > resting_order.quantity_filled
    THEN [m EXCEPT !.orders = m.orders \o <<resting_order>>]
    ELSE [m EXCEPT !.total_orders = m.total_orders - 1]

\* after_fill without the decrement of total_orders
after_fill_no_count(m, resting_order) ==
    IF resting_order.quantity > resting_order.quantity_filled
    THEN [m EXCEPT !.orders = <<resting_order>> \o m.orders]
    ELSE m

\* where a maker goes after a fill: back to the front of its level when it
\* still has residual, out of the book (total_orders - 1) otherwise
after_fill(m, resting_order) ==
    IF resting_order.quantity > resting_order.quantity_filled
    THEN [m EXCEPT !.orders = <<resting_order>> \o m.orders]
    ELSE [m EXCEPT !.total_orders = m.total_orders - 1]

\* trade_with that does not advance trade_id_counter
trade_with_same_id(m, tick, resting_order, quantity_to_fill) ==
    [m EXCEPT
       !.orders = Tail(@),
       !.trades = Append(@, Trade(m.trade_id_counter, m.order, resting_order,
                                  quantity_to_fill)),
       !.fills = Append(@, best_live_tick(StoreLevel(m, tick).opp)),
       !.order = [@ EXCEPT !.quantity_filled = @ + quantity_to_fill],
       !.total_quantity = @ - quantity_to_fill]

\* the trade and the three quantity updates made with the maker at the head
\* of the held level, which is popped
trade_with(m, tick, resting_order, quantity_to_fill) ==
    [m EXCEPT
       !.orders = Tail(@),
       !.trades = Append(@, Trade(m.trade_id_counter, m.order, resting_order,
                                  quantity_to_fill)),
       !.fills = Append(@, best_live_tick(StoreLevel(m, tick).opp)),
       !.trade_id_counter = @ + 1,
       !.order = [@ EXCEPT !.quantity_filled = @ + quantity_to_fill],
       !.total_quantity = @ - quantity_to_fill]

\* the tests that follow a fill: arithmetic traps, then `break 'outer` when
\* the taker is filled
after_trade(m) ==
    IF m.total_quantity < 0
    THEN [m EXCEPT !.panic = "total_quantity_overflow", !.done = TRUE]
    ELSE IF m.total_orders < 0
    THEN [m EXCEPT !.panic = "total_orders_overflow", !.done = TRUE]
    ELSE IF m.order.quantity = m.order.quantity_filled
    THEN [m EXCEPT !.done = TRUE]
    ELSE m

\* fill that puts the maker back with its quantity_filled as it was
fill_maker_unchanged(m, tick, resting_order, quantity_to_fill) ==
    IF quantity_to_fill = 0
    THEN [m EXCEPT !.orders = Tail(@), !.panic = "empty_resting_order",
                   !.done = TRUE]
    ELSE after_trade(
           after_fill(trade_with(m, tick, resting_order, quantity_to_fill),
                      resting_order))

\* one fill of the taker against the live maker at the head of the level
fill(m, tick, resting_order, quantity_to_fill) ==
    IF quantity_to_fill = 0
    THEN [m EXCEPT !.orders = Tail(@), !.panic = "empty_resting_order",
                   !.done = TRUE]
    ELSE after_trade(
           after_fill(trade_with(m, tick, resting_order, quantity_to_fill),
                      [resting_order EXCEPT !.quantity_filled = @ + quantity_to_fill]))

\* level_loop without `if resting_order.is_cancelled { continue; }`
RECURSIVE level_loop_no_skip(_, _)
level_loop_no_skip(m, tick) ==
    IF m.done \/ Len(m.orders) = 0 THEN m
    ELSE level_loop_no_skip(fill(m, tick, Head(m.orders),
                                 Min(Residual(m.order), Residual(Head(m.orders)))),
                            tick)

\* `while let Some(resting_order) = level.orders.pop_front()`
RECURSIVE level_loop(_, _)
level_loop(m, tick) ==
    IF m.done \/ Len(m.orders) = 0 THEN m
    ELSE IF Head(m.orders).is_cancelled
    THEN level_loop([m EXCEPT !.orders = Tail(@),
                              !.dropped = Append(@, Head(m.orders).id)], tick)
    ELSE level_loop(fill(m, tick, Head(m.orders),
                         Min(Residual(m.order), Residual(Head(m.orders)))), tick)

\* leaving a level: it is removed when its total_quantity is 0
leave_level(m, tick) ==
    IF m.panic = "none" /\ m.total_quantity = 0
    THEN [m EXCEPT !.opp.levels = RemoveKey(@, tick)]
    ELSE StoreLevel(m, tick)

\* one iteration of `'outer: for tick in tick_range`
visit_tick(m, tick) ==
    IF tick \notin DOMAIN m.opp.levels THEN m
    ELSE leave_level(
           level_loop([m EXCEPT !.orders = m.opp.levels[tick].orders,
                                !.total_quantity = m.opp.levels[tick].total_quantity],
                      tick), tick)

RECURSIVE outer_loop(_, _)
outer_loop(m, ticks) ==
    IF Len(ticks) = 0 \/ m.done THEN m
    ELSE outer_loop(visit_tick(m, Head(ticks)), Tail(ticks))

\* what add_order and match_order hand on: the book, the taker (or the
\* Option<Order> returned), the trades, fills, and the panic raised if any
Outcome(b, order, trades, fills, p) ==
    [book |-> b, order |-> order, trades |-> trades, fills |-> fills, panic |-> p,
     dropped |-> << >>]

\* the book with the side and counters the loop ended with
written(b, order, m) ==
    [WithSide(b, OppositeOf(order.side), m.opp) EXCEPT
       !.trade_id_counter = m.trade_id_counter,
       !.total_orders = m.total_orders]

\* the end of match_order, m being the state the loop ended with
finish_match(b, order, m) ==
    IF m.panic # "none"
    THEN [Outcome(written(b, order, m), m.order, m.trades, m.fills, m.panic)
            EXCEPT !.dropped = m.dropped]
    ELSE [Outcome(update_price_ticks_after_match(written(b, order, m), order.side),
                  m.order, m.trades, m.fills, "none")
            EXCEPT !.dropped = m.dropped]

\* match_order once the bounds <<start_tick, end_tick>> are known
match_between(b, order, bounds) ==
    IF bounds[1] = 0 /\ bounds[2] = 0
    THEN Outcome(b, order, << >>, << >>, "none")
    ELSE finish_match(b, order,
                      outer_loop(start_loop(b, order),
                                 tick_range(order, bounds[1], bounds[2])))

match_order(b, order) == match_between(b, order, get_tick_iter_bounds(b, order))

(***************************************************************************)
(* OrderBook::add_order                                                    *)
(***************************************************************************)
\* rests without the test of the time in force
rests_any_tif(order, price_tick, time_in_force) ==
    /\ order.quantity > order.quantity_filled
    /\ price_tick > 0

\* rests without the test price_tick > 0
rests_market(order, price_tick, time_in_force) ==
    /\ time_in_force = "GTC"
    /\ order.quantity > order.quantity_filled

\* whether the taker, after matching, is put in the book
rests(order, price_tick, time_in_force) ==
    /\ time_in_force = "GTC"
    /\ order.quantity > order.quantity_filled
    /\ price_tick > 0

\* disposition that returns None for every market order left with a residual
disposition_market_none(b, order, trades, fills) ==
    IF order.quantity > order.quantity_filled
    THEN IF order.time_in_force = "FOK"
         THEN Outcome(b, NoOrder, trades, fills, "fok_unreachable")
         ELSE IF order.time_in_force = "IOC"
         THEN Outcome(b, NoOrder, trades, fills, "none")
         ELSE IF order.price_tick > 0
         THEN Outcome(b, Some(order), trades, fills, "none")
         ELSE Outcome(b, NoOrder, trades, fills, "none")
    ELSE Outcome(b, Some(order), trades, fills, "none")

\* the return statements of add_order after matching
disposition(b, order, trades, fills) ==
    IF order.quantity > order.quantity_filled
    THEN IF order.time_in_force = "FOK"
         THEN Outcome(b, NoOrder, trades, fills, "fok_unreachable")
         ELSE IF order.time_in_force = "IOC"
         THEN Outcome(b, NoOrder, trades, fills, "none")
         ELSE IF order.price_tick > 0
         THEN Outcome(b, Some(order), trades, fills, "none")
         ELSE IF trades = << >>
         THEN Outcome(b, NoOrder, trades, fills, "none")
         ELSE Outcome(b, Some(order), trades, fills, "none")
    ELSE Outcome(b, Some(order), trades, fills, "none")

\* add_order after matching: the taker rests or not, then the returns
place(matched) ==
    IF matched.panic # "none"
    THEN [Outcome(matched.book, NoOrder, matched.trades, matched.fills,
                  matched.panic)
            EXCEPT !.dropped = matched.dropped]
    ELSE IF rests(matched.order, matched.order.price_tick,
                  matched.order.time_in_force)
    THEN [disposition(add_limit_order(matched.book, matched.order), matched.order,
                      matched.trades, matched.fills)
            EXCEPT !.dropped = matched.dropped]
    ELSE [disposition(matched.book, matched.order, matched.trades, matched.fills)
            EXCEPT !.dropped = matched.dropped]

\* intake that refuses an infeasible FOK order only after matching it
intake_late_fok(b, order) ==
    IF /\ ~get_opposite_best_tick(b, order.side).is_some
       /\ order.time_in_force \in {"FOK", "IOC"}
    THEN Outcome(b, NoOrder, << >>, << >>, "none")
    ELSE IF order.time_in_force = "FOK" /\ ~can_fill_fok(b, order)
    THEN Outcome(match_order(b, order).book, NoOrder, << >>, << >>, "none")
    ELSE IF get_opposite_best_tick(b, order.side).is_some
    THEN place(match_order(b, order))
    ELSE place(Outcome(b, order, << >>, << >>, "none"))

\* add_order once the id is taken: the two refusals, matching, placement
intake(b, order) ==
    IF /\ ~get_opposite_best_tick(b, order.side).is_some
       /\ order.time_in_force \in {"FOK", "IOC"}
    THEN Outcome(b, NoOrder, << >>, << >>, "none")
    ELSE IF order.time_in_force = "FOK" /\ ~can_fill_fok(b, order)
    THEN Outcome(b, NoOrder, << >>, << >>, "none")
    ELSE IF get_opposite_best_tick(b, order.side).is_some
    THEN place(match_order(b, order))
    ELSE place(Outcome(b, order, << >>, << >>, "none"))

\* add_order that takes the id only once the two refusals are passed
add_order_late_id(b, user_id, price_tick, quantity, side, time_in_force) ==
    IF /\ ~get_opposite_best_tick(b, side).is_some
       /\ time_in_force \in {"FOK", "IOC"}
    THEN Outcome(b, NoOrder, << >>, << >>, "none")
    ELSE IF /\ time_in_force = "FOK"
            /\ ~can_fill_fok(b, Order(b.order_id_counter, user_id, price_tick,
                                      quantity, side, time_in_force))
    THEN Outcome(b, NoOrder, << >>, << >>, "none")
    ELSE intake([b EXCEPT !.order_id_counter = @ + 1],
                Order(b.order_id_counter, user_id, price_tick, quantity, side,
                      time_in_force))

add_order(b, user_id, price_tick, quantity, side, time_in_force) ==
    intake([b EXCEPT !.order_id_counter = @ + 1],
           Order(b.order_id_counter, user_id, price_tick, quantity, side,
                 time_in_force))

(***************************************************************************)
(* OrderBook::cancel_order                                                 *)
(***************************************************************************)
\* slice::binary_search_by_key over the ids of a level's queue: Some(index),
\* 0-based, or None
RECURSIVE binary_search(_, _, _, _)
binary_search(orders, order_id, left, right) ==
    IF left >= right THEN None
    ELSE IF orders[left + ((right - left) \div 2) + 1].id < order_id
    THEN binary_search(orders, order_id, left + ((right - left) \div 2) + 1, right)
    ELSE IF orders[left + ((right - left) \div 2) + 1].id > order_id
    THEN binary_search(orders, order_id, left, left + ((right - left) \div 2))
    ELSE Some(left + ((right - left) \div 2))

binary_search_by_key(orders, order_id) ==
    binary_search(orders, order_id, 0, Len(orders))

\* mark_cancelled that leaves total_quantity as it was
mark_cancelled_keep_total(level, i) ==
    [orders |-> [level.orders EXCEPT ![i].is_cancelled = TRUE],
     total_quantity |-> level.total_quantity]

\* the block that flags the order and takes its residual out of the level
mark_cancelled(level, i) ==
    [orders |-> [level.orders EXCEPT ![i].is_cancelled = TRUE],
     total_quantity |-> level.total_quantity - Residual(level.orders[i])]

\* the side with the level at price_tick replaced by `level`, or removed when
\* its total_quantity is 0
with_level(side_mut, price_tick, level) ==
    IF level.total_quantity = 0
    THEN [side_mut EXCEPT !.levels = RemoveKey(@, price_tick)]
    ELSE [side_mut EXCEPT !.levels = PutKey(@, price_tick, level)]

Cancelled(b, ok, p) == [book |-> b, ok |-> ok, panic |-> p]

\* cancel_order of a live order found in `level`, marked being the level
\* after the order is flagged and need_update_ticks as precomputed
cancel_live(b, price_tick, side, marked, need_update_ticks) ==
    IF b.total_orders = 0
    THEN Cancelled(WithSide(b, side, with_level(SideOf(b, side), price_tick, marked)),
                   FALSE, "total_orders_overflow")
    ELSE IF need_update_ticks
    THEN Cancelled(
           update_side_ticks(
             [WithSide(b, side, with_level(SideOf(b, side), price_tick, marked))
                EXCEPT !.total_orders = @ - 1], side),
           TRUE, "none")
    ELSE Cancelled(
           [WithSide(b, side, with_level(SideOf(b, side), price_tick, marked))
              EXCEPT !.total_orders = @ - 1],
           TRUE, "none")

\* cancel_order once the order is found in `level` at position i (1-based).
\* overflow_checks: the build traps integer overflow (debug profile) or wraps
\* (release profile); a wrapped remaining quantity is never 0.
cancel_found(b, price_tick, side, level, i, overflow_checks) ==
    IF level.orders[i].side # side THEN Cancelled(b, FALSE, "none")
    ELSE IF level.total_quantity < Residual(level.orders[i]) /\ overflow_checks
    THEN Cancelled(b, FALSE, "total_quantity_overflow")
    ELSE IF level.orders[i].is_cancelled THEN Cancelled(b, FALSE, "none")
    ELSE cancel_live(b, price_tick, side, mark_cancelled(level, i),
                     level.total_quantity - Residual(level.orders[i]) = 0)

\* cancel_order once the level is found, found being the result of the search
cancel_in_level(b, price_tick, side, level, found, overflow_checks) ==
    IF ~found.is_some THEN Cancelled(b, FALSE, "none")
    ELSE cancel_found(b, price_tick, side, level, found.v + 1, overflow_checks)

\* returns the book, the boolean returned, the panic raised if any
cancel_order(b, order_id, price_tick, side, overflow_checks) ==
    IF price_tick \notin DOMAIN SideOf(b, side).levels
    THEN Cancelled(b, FALSE, "none")
    ELSE cancel_in_level(b, price_tick, side, SideOf(b, side).levels[price_tick],
                         binary_search_by_key(
                           SideOf(b, side).levels[price_tick].orders, order_id),
                         overflow_checks)

(***************************************************************************)
(* OrderBook::get_depth                                                    *)
(***************************************************************************)
DepthLevel(price_tick, level) ==
    [price_tick |-> price_tick, quantity |-> level.total_quantity]

\* the key a BTreeMap iterator yields first among `keys`: the greatest under
\* .rev(), the least otherwise
first_key(keys, rev) == IF rev THEN SetMax(keys) ELSE SetMin(keys)

\* depth_levels that takes the levels from the wrong end of the map
RECURSIVE depth_levels_unreversed(_, _, _, _)
depth_levels_unreversed(levels, keys, n, rev) ==
    IF n = 0 \/ keys = {} THEN << >>
    ELSE <<DepthLevel(first_key(keys, ~rev), levels[first_key(keys, ~rev)])>>
         \o depth_levels_unreversed(levels, keys \ {first_key(keys, ~rev)}, n - 1, rev)

\* `levels.iter()[.rev()].take(n)` pushed as DepthLevels: the entries of the
\* map over `keys`, in iteration order, at most n of them
RECURSIVE depth_levels(_, _, _, _)
depth_levels(levels, keys, n, rev) ==
    IF n = 0 \/ keys = {} THEN << >>
    ELSE <<DepthLevel(first_key(keys, rev), levels[first_key(keys, rev)])>>
         \o depth_levels(levels, keys \ {first_key(keys, rev)}, n - 1, rev)

OrderBookDepth(bids, asks) == [bids |-> bids, asks |-> asks]

get_depth(b, levels) ==
    OrderBookDepth(
      depth_levels(b.bid_side.levels, DOMAIN b.bid_side.levels, levels, TRUE),
      depth_levels(b.ask_side.levels, DOMAIN b.ask_side.levels, levels, FALSE))

(***************************************************************************)
(* OrderBook::get_order_by_id                                              *)
(***************************************************************************)
\* the first order with this id in self.<side>.levels.values(), levels in
\* ascending key order, each queue front to back
RECURSIVE find_in_levels(_, _, _)
find_in_levels(levels, keys, order_id) ==
    IF keys = {} THEN NoOrder
    ELSE IF \E i \in 1..Len(levels[SetMin(keys)].orders) :
              levels[SetMin(keys)].orders[i].id = order_id
    THEN Some(levels[SetMin(keys)].orders[
                CHOOSE i \in 1..Len(levels[SetMin(keys)].orders) :
                    /\ levels[SetMin(keys)].orders[i].id = order_id
                    /\ \A j \in 1..(i - 1) :
                          levels[SetMin(keys)].orders[j].id # order_id])
    ELSE find_in_levels(levels, keys \ {SetMin(keys)}, order_id)

get_order_by_id(b, order_id) ==
    IF find_in_levels(b.bid_side.levels, DOMAIN b.bid_side.levels, order_id).is_some
    THEN find_in_levels(b.bid_side.levels, DOMAIN b.bid_side.levels, order_id)
    ELSE find_in_levels(b.ask_side.levels, DOMAIN b.ask_side.levels, order_id)

(***************************************************************************)
(* http-server/src/models: the ledger (InMemoryStorage, UserFunds)         *)
(* One symbol is modelled, BTC-USD; its base asset is `base`.              *)
(***************************************************************************)
UserFunds(base, usd) == [base |-> base, usd |-> usd]

\* impl Default for UserFunds
default_funds == UserFunds(InitialBase, InitialUsd)

\* quantity_amount * price_amount
cost_amount(quantity, price_tick) == quantity * price_tick

\* Result<(), String> of a ledger operation, with the ledger it leaves
LedgerResult(ok, f) == [ok |-> ok, funds |-> f, message |-> ""]

\* Err(message): the ledger is left as it was
LedgerErr(f, message) == [ok |-> FALSE, funds |-> f, message |-> message]

debit_funds_for_order_no_equal(f, user_id, side, quantity, price_tick) ==
    IF side = "Bid"
    THEN IF f[user_id].usd <= cost_amount(quantity, price_tick)
         THEN LedgerErr(f, "Insufficient USD funds")
         ELSE LedgerResult(TRUE, [f EXCEPT ![user_id].usd =
                                     @ - cost_amount(quantity, price_tick)])
    ELSE IF f[user_id].base <= quantity
         THEN LedgerErr(f, "Insufficient BTC funds")
         ELSE LedgerResult(TRUE, [f EXCEPT ![user_id].base = @ - quantity])

\* debit_funds_for_order that subtracts without the funds check
debit_funds_for_order_no_check(f, user_id, side, quantity, price_tick) ==
    IF side = "Bid"
    THEN LedgerResult(TRUE, [f EXCEPT ![user_id].usd =
                                @ - cost_amount(quantity, price_tick)])
    ELSE LedgerResult(TRUE, [f EXCEPT ![user_id].base = @ - quantity])

debit_funds_for_order(f, user_id, side, quantity, price_tick) ==
    IF side = "Bid"
    THEN IF f[user_id].usd < cost_amount(quantity, price_tick)
         THEN LedgerErr(f, "Insufficient USD funds")
         ELSE LedgerResult(TRUE, [f EXCEPT ![user_id].usd =
                                     @ - cost_amount(quantity, price_tick)])
    ELSE IF f[user_id].base < quantity
         THEN LedgerErr(f, "Insufficient BTC funds")
         ELSE LedgerResult(TRUE, [f EXCEPT ![user_id].base = @ - quantity])

credit_funds_back(f, user_id, side, quantity, price_tick) ==
    IF side = "Bid"
    THEN [f EXCEPT ![user_id].usd = @ + cost_amount(quantity, price_tick)]
    ELSE [f EXCEPT ![user_id].base = @ + quantity]

handle_partial_fill_refund(f, user_id, side, unfilled_quantity, price_tick) ==
    IF side = "Bid"
    THEN [f EXCEPT ![user_id].usd = @ + cost_amount(unfilled_quantity, price_tick)]
    ELSE [f EXCEPT ![user_id].base = @ + unfilled_quantity]

\* the branch of settle_trade taken when taker and maker differ
settle_two_users(f, trade) ==
    [f EXCEPT
       ![trade.taker_user_id] =
           UserFunds(@.base + trade.quantity,
                     @.usd - cost_amount(trade.quantity, trade.price_tick)),
       ![trade.maker_user_id] =
           UserFunds(@.base - trade.quantity,
                     @.usd + cost_amount(trade.quantity, trade.price_tick))]

settle_trade(f, trade) ==
    IF trade.taker_user_id = trade.maker_user_id
    THEN [f EXCEPT ![trade.taker_user_id] =
              UserFunds(@.base + trade.quantity,
                        @.usd + cost_amount(trade.quantity, trade.price_tick))]
    ELSE settle_two_users(f, trade)

(***************************************************************************)
(* http-server/src/routes/orders.rs: add_order and cancel_order handlers   *)
(***************************************************************************)
\* `for trade in &trades { settle_trade(...) }`
RECURSIVE settle_trades(_, _)
settle_trades(f, trades) ==
    IF Len(trades) = 0 THEN f
    ELSE settle_trades(settle_trade(f, Head(trades)), Tail(trades))

\* a placement that credits nothing back when the book refuses the order
refund_placed_no_credit(f, user_id, side, quantity, price_tick, order) ==
    IF ~order.is_some
    THEN f
    ELSE IF Residual(order.v) > 0 /\ order.v.quantity_filled > 0
    THEN handle_partial_fill_refund(f, user_id, side, Residual(order.v), price_tick)
    ELSE f

\* the refunds that follow the settlements of a placement
refund_placed(f, user_id, side, quantity, price_tick, order) ==
    IF ~order.is_some
    THEN credit_funds_back(f, user_id, side, quantity, price_tick)
    ELSE IF Residual(order.v) > 0 /\ order.v.quantity_filled > 0
    THEN handle_partial_fill_refund(f, user_id, side, Residual(order.v), price_tick)
    ELSE f

\* what a handler leaves and answers: the book, the ledger, the panic if
\* any, the HTTP status, and for a placement what the book returned, the
\* ledger after the entry debit and the ledger after the settlements
Response(b, f, p, status, r, funds_debited, funds_settled) ==
    [book |-> b, funds |-> f, panic |-> p, status |-> status,
     order |-> r.order, trades |-> r.trades, fills |-> r.fills,
     dropped |-> r.dropped, funds_debited |-> funds_debited,
     funds_settled |-> funds_settled, message |-> ""]

\* a placement the book was not asked about
NotPlaced(b) == Outcome(b, NoOrder, << >>, << >>, "none")

\* 400 Bad Request before the book is asked: nothing is changed
BadRequest(b, f, message) ==
    [Response(b, f, "none", 400, NotPlaced(b), f, f) EXCEPT !.message = message]

\* add_order once the book has returned r and the trades are settled
placed_settled(r, funds_debited, funds_settled, user_id, price_tick, quantity, side) ==
    [Response(r.book,
              refund_placed(funds_settled, user_id, side, quantity, price_tick, r.order),
              "none", IF r.order.is_some THEN 201 ELSE 400,
              r, funds_debited, funds_settled)
       EXCEPT !.message = IF r.order.is_some THEN "Order accepted"
                          ELSE "Order rejected"]

\* add_order once the funds are debited and the book has returned r
placed(r, funds_debited, user_id, price_tick, quantity, side) ==
    IF r.panic # "none"
    THEN Response(r.book, funds_debited, r.panic, 0, r, funds_debited, funds_debited)
    ELSE placed_settled(r, funds_debited, settle_trades(funds_debited, r.trades),
                        user_id, price_tick, quantity, side)

\* add_order once debit_funds_for_order has returned
debited(b, f, debit, user_id, price_tick, quantity, side, time_in_force) ==
    IF ~debit.ok THEN BadRequest(b, f, debit.message)
    ELSE placed(add_order(b, user_id, price_tick, quantity, side, time_in_force),
                debit.funds, user_id, price_tick, quantity, side)

\* routes::orders::add_order (POST /orders) by the authenticated user_id
post_orders(b, f, user_id, price_tick, quantity, side, time_in_force) ==
    IF quantity = 0 THEN BadRequest(b, f, "Quantity must be greater than 0")
    ELSE debited(b, f, debit_funds_for_order(f, user_id, side, quantity, price_tick),
                 user_id, price_tick, quantity, side, time_in_force)

\* cancel_order once the book has cancelled and the order has been looked up
cancel_refund(f, user_id, side, price_tick, cancelled_order) ==
    IF cancelled_order.is_some /\ Residual(cancelled_order.v) > 0
    THEN credit_funds_back(f, user_id, side, Residual(cancelled_order.v), price_tick)
    ELSE f

\* cancel_order once the book's cancel_order has returned c
cancel_answered(c, f, user_id, order_id, price_tick, side) ==
    IF c.panic # "none"
    THEN Response(c.book, f, c.panic, 0, NotPlaced(c.book), f, f)
    ELSE IF c.ok
    THEN Response(c.book,
                  cancel_refund(f, user_id, side, price_tick,
                                get_order_by_id(c.book, order_id)),
                  "none", 200, NotPlaced(c.book), f, f)
    ELSE Response(c.book, f, "none", 404, NotPlaced(c.book), f, f)

\* routes::orders::cancel_order (DELETE /orders/{id}) by the authenticated
\* user_id
delete_orders(b, f, user_id, order_id, price_tick, side, overflow_checks) ==
    cancel_answered(cancel_order(b, order_id, price_tick, side, overflow_checks),
                    f, user_id, order_id, price_tick, side)

(***************************************************************************)
(* http-server/src/main.rs: AppState shared by the concurrent handlers     *)
(***************************************************************************)
\* the tokio tasks that run the handlers
Tasks == 1..NumTasks

\* the keys of AppState.order_books
Symbols == {"BTC-USD", "SOL-USD"}

\* UserFunds with the base asset of each symbol
Holdings(btc, sol, usd) == [btc |-> btc, sol |-> sol, usd |-> usd]

\* `match symbol { "BTC-USD" => user.funds.btc, "SOL-USD" => user.funds.sol }`:
\* the ledger as the flow of one symbol reads it, and as it writes it back
funds_of(acc, symbol) ==
    [u \in Accounts |->
        UserFunds(IF symbol = "BTC-USD" THEN acc[u].btc ELSE acc[u].sol, acc[u].usd)]

accounts_with(acc, symbol, f) ==
    [u \in Accounts |->
        IF symbol = "BTC-USD" THEN Holdings(f[u].base, acc[u].sol, f[u].usd)
        ELSE Holdings(acc[u].btc, f[u].base, f[u].usd)]

\* a request as its handler holds it: the payload, the authenticated user_id
\* and the locals the handler computes (order, trades still to settle, ok)
Request(op, symbol, user_id, quantity) ==
    [op |-> op, symbol |-> symbol, user_id |-> user_id, quantity |-> quantity,
     order_id |-> 0, price_tick |-> 0, side |-> "Bid", time_in_force |-> "GTC",
     order |-> NoOrder, trades |-> << >>, ok |-> FALSE, status |-> 0]

NoRequest == Request("none", "BTC-USD", 0, 0)

\* the /notifications connections that can be open at a time
Sockets == 1..MaxSockets

\* NotificationType::TradeFill as sent to user_id
TradeFill(trade, symbol, user_id) ==
    [type |-> "trade_fill", trade |-> trade, symbol |-> symbol,
     is_taker |-> (trade.taker_user_id = user_id)]

(***************************************************************************)
(* The book as a state machine                                             *)
(***************************************************************************)
Call(op, user_id, order_id, price_tick, quantity, side, tif, order, trades, fills, ok) ==
    [op |-> op, user_id |-> user_id, order_id |-> order_id,
     price_tick |-> price_tick, quantity |-> quantity, side |-> side,
     time_in_force |-> tif, order |-> order, trades |-> trades, fills |-> fills,
     ok |-> ok, dropped |-> << >>, levels |-> 0,
     depth |-> OrderBookDepth(<< >>, << >>),
     status |-> 0, funds_debited |-> << >>, funds_settled |-> << >>,
     message |-> ""]

SetBook(b) ==
    /\ ask_side' = b.ask_side
    /\ bid_side' = b.bid_side
    /\ order_id_counter' = b.order_id_counter
    /\ trade_id_counter' = b.trade_id_counter
    /\ total_orders' = b.total_orders

Init ==
    /\ ask_side = new.ask_side
    /\ bid_side = new.bid_side
    /\ order_id_counter = new.order_id_counter
    /\ trade_id_counter = new.trade_id_counter
    /\ total_orders = new.total_orders
    /\ panic = "none"
    /\ last = Call("new", 0, 0, 0, 0, "Bid", "GTC", NoOrder, << >>, << >>, FALSE)
    /\ funds = [u \in Accounts |-> default_funds]
    /\ order_books = [symbol \in Symbols |-> new]
    /\ order_books_lock = 0
    /\ accounts = [u \in Accounts |-> Holdings(InitialBase, InitialBase, InitialUsd)]
    /\ pc = [t \in Tasks |-> "idle"]
    /\ req = [t \in Tasks |-> NoRequest]
    /\ notification_manager = [u \in Accounts |-> 0]
    /\ sockets = [k \in Sockets |-> 0]
    /\ channel = [k \in Sockets |-> << >>]
    /\ accounts_lock = 0
    /\ notification_manager_lock = 0

\* the state after add_order returned r
AddOrderReturns(r, order_id, user_id, price_tick, quantity, side, tif) ==
    /\ SetBook(r.book)
    /\ panic' = r.panic
    /\ last' = [Call("add_order", user_id, order_id, price_tick, quantity, side,
                     tif, r.order, r.trades, r.fills, r.order.is_some)
                  EXCEPT !.dropped = r.dropped]
    /\ UNCHANGED <<funds, server_vars, ws_vars, lock_vars>>

\* a call of OrderBook::add_order
AddOrder ==
    /\ panic = "none"
    /\ order_id_counter < MaxOrders
    /\ \E user_id \in Users, price_tick \in Ticks, quantity \in Quantities,
          side \in OrderSide, tif \in TimeInForce :
         AddOrderReturns(add_order(Book, user_id, price_tick, quantity, side, tif),
                         order_id_counter, user_id, price_tick, quantity, side, tif)

\* the outcomes of a call of cancel_order under the two overflow profiles
cancel_outcomes(b, order_id, price_tick, side) ==
    {cancel_order(b, order_id, price_tick, side, oc) : oc \in BOOLEAN}

\* the state after cancel_order returned r. A refused cancellation changes
\* nothing and is recorded without its arguments.
CancelOrderReturns(r, order_id, price_tick, side) ==
    /\ SetBook(r.book)
    /\ panic' = r.panic
    /\ last' = IF r.ok \/ r.panic # "none"
               THEN Call("cancel_order", 0, order_id, price_tick, 0, side, "GTC",
                         NoOrder, << >>, << >>, r.ok)
               ELSE Call("cancel_order", 0, 0, 0, 0, "Bid", "GTC", NoOrder,
                         << >>, << >>, FALSE)
    /\ UNCHANGED <<funds, server_vars, ws_vars, lock_vars>>

\* a call of OrderBook::cancel_order
CancelOrder ==
    /\ panic = "none"
    /\ \E order_id \in 0..(MaxOrders - 1), price_tick \in Ticks, side \in OrderSide :
         \E r \in cancel_outcomes(Book, order_id, price_tick, side) :
             CancelOrderReturns(r, order_id, price_tick, side)

\* a call of OrderBook::get_depth: the book is borrowed immutably
GetDepth ==
    /\ panic = "none"
    /\ \E levels \in 0..MaxDepth :
         last' = [Call("get_depth", 0, 0, 0, 0, "Bid", "GTC", NoOrder, << >>, << >>,
                       TRUE)
                    EXCEPT !.levels = levels, !.depth = get_depth(Book, levels)]
    /\ UNCHANGED <<ask_side, bid_side, order_id_counter, trade_id_counter,
                   total_orders, panic, funds, server_vars, ws_vars,
                   lock_vars>>

Next == AddOrder \/ CancelOrder \/ GetDepth

Spec == Init /\ [][Next]_vars

(***************************************************************************)
(* The gateway as a state machine: each request runs to its response       *)
(***************************************************************************)
\* the state after a handler answered r to the request c. A request that is
\* refused before it changes the book or the ledger is recorded by its
\* operation, status and message only.
Responds(r, c) ==
    /\ SetBook(r.book)
    /\ panic' = r.panic
    /\ funds' = r.funds
    /\ last' = IF r.book = Book /\ r.funds = funds /\ r.panic = "none"
               THEN [Call(c.op, 0, 0, 0, 0, "Bid", "GTC", NoOrder, << >>, << >>, FALSE)
                       EXCEPT !.status = r.status, !.message = r.message]
               ELSE [c EXCEPT !.order = r.order, !.trades = r.trades,
                              !.message = r.message,
                              !.fills = r.fills, !.dropped = r.dropped,
                              !.status = r.status,
                              !.ok = (r.status \in {200, 201}),
                              !.funds_debited = r.funds_debited,
                              !.funds_settled = r.funds_settled]
    /\ UNCHANGED <<server_vars, ws_vars, lock_vars>>

\* POST /orders
PostOrders ==
    /\ panic = "none"
    /\ order_id_counter < MaxPlaced
    /\ \E user_id \in Accounts, price_tick \in Ticks, quantity \in 0..MaxQty,
          side \in OrderSide, tif \in TimeInForce :
         Responds(post_orders(Book, funds, user_id, price_tick, quantity, side, tif),
                  Call("POST /orders", user_id, order_id_counter, price_tick,
                       quantity, side, tif, NoOrder, << >>, << >>, FALSE))

\* DELETE /orders/{id}
DeleteOrders ==
    /\ panic = "none"
    /\ \E user_id \in Accounts, order_id \in 0..(MaxPlaced - 1), price_tick \in Ticks,
          side \in OrderSide, overflow_checks \in BOOLEAN :
         Responds(delete_orders(Book, funds, user_id, order_id, price_tick, side,
                                overflow_checks),
                  Call("DELETE /orders", user_id, order_id, price_tick, 0, side,
                       "GTC", NoOrder, << >>, << >>, FALSE))

GatewayNext == PostOrders \/ DeleteOrders

GatewaySpec == Init /\ [][GatewayNext]_vars

(***************************************************************************)
(* The handlers as concurrent tasks. A step is one lock-protected          *)
(* operation on the shared state: a hold of the order_books Mutex that     *)
(* ends within the statement, a call of an InMemoryStorage method (each    *)
(* holds the accounts Mutex for its whole body), or a call on the book     *)
(* while order_books is held. A field of the payload is drawn when the     *)
(* handler first reads it. Each task serves one request.                   *)
(***************************************************************************)
\* the Mutex is poisoned: a task panicked while it held the guard
Poisoned == order_books_lock # 0 /\ pc[order_books_lock] = "panicked"

At(t, label) == pc' = [pc EXCEPT ![t] = label]

\* axum hands a request to its handler. add_order validates the quantity
\* before it touches any shared state.
ReceiveAt(t) ==
    /\ pc[t] = "idle"
    /\ \E symbol \in Symbols, user_id \in Accounts :
         \/ \E quantity \in 0..MaxQty :
              /\ req' = [req EXCEPT ![t] =
                           [Request("POST /orders", symbol, user_id, quantity)
                              EXCEPT !.status = IF quantity = 0 THEN 400 ELSE 0]]
              /\ At(t, IF quantity = 0 THEN "responded" ELSE "tick_multiplier")
         \/ /\ req' = [req EXCEPT ![t] = Request("DELETE /orders", symbol, user_id, 0)]
            /\ At(t, "tick_multiplier")
    /\ UNCHANGED <<order_books, order_books_lock, accounts>>

\* `let tick_multiplier = { let order_books = state.order_books.lock().unwrap();
\* ... }`: the guard is dropped at the end of the block
ReadMultiplierAt(t) ==
    /\ pc[t] = "tick_multiplier"
    /\ order_books_lock = 0 \/ Poisoned
    /\ At(t, IF Poisoned THEN "panicked"
             ELSE IF req[t].op = "POST /orders" THEN "debit" ELSE "lock")
    /\ UNCHANGED <<order_books, order_books_lock, accounts, req>>

\* add_order once debit_funds_for_order has returned: 400 on Err
DebitReturns(t, side, price_tick, debit) ==
    /\ accounts' = accounts_with(accounts, req[t].symbol, debit.funds)
    /\ req' = [req EXCEPT ![t].side = side, ![t].price_tick = price_tick,
                          ![t].status = IF debit.ok THEN 0 ELSE 400]
    /\ At(t, IF debit.ok THEN "lock" ELSE "responded")

\* state.storage.debit_funds_for_order(...), no book lock held
DebitAt(t) ==
    /\ pc[t] = "debit"
    /\ \E side \in OrderSide, price_tick \in Ticks :
         DebitReturns(t, side, price_tick,
                      debit_funds_for_order(funds_of(accounts, req[t].symbol),
                                            req[t].user_id, side, req[t].quantity,
                                            price_tick))
    /\ UNCHANGED <<order_books, order_books_lock>>

\* `let mut order_books = state.order_books.lock().unwrap();`: the guard
\* lives to the end of the handler
LockBooksAt(t) ==
    /\ pc[t] = "lock"
    /\ order_books_lock = 0 \/ Poisoned
    /\ order_books_lock' = IF Poisoned THEN order_books_lock ELSE t
    /\ At(t, IF Poisoned THEN "panicked"
             ELSE IF req[t].op = "POST /orders" THEN "add_order" ELSE "cancel_order")
    /\ UNCHANGED <<order_books, accounts, req>>

\* add_order once order_book.add_order has returned r; a panic unwinds the
\* task and leaves the Mutex poisoned
MatchReturns(t, tif, r) ==
    /\ order_books' = [order_books EXCEPT ![req[t].symbol] = r.book]
    /\ req' = [req EXCEPT ![t].time_in_force = tif, ![t].order = r.order,
                          ![t].trades = r.trades,
                          ![t].order_id = order_books[req[t].symbol].order_id_counter]
    /\ At(t, IF r.panic # "none" THEN "panicked"
             ELSE IF r.trades = << >> THEN "refund" ELSE "settle")

\* order_book.add_order(...) under the guard
MatchAt(t) ==
    /\ pc[t] = "add_order"
    /\ \E tif \in TimeInForce :
         MatchReturns(t, tif,
                      add_order(order_books[req[t].symbol], req[t].user_id,
                                req[t].price_tick, req[t].quantity, req[t].side, tif))
    /\ UNCHANGED <<order_books_lock, accounts>>

\* one turn of `for trade in &trades { state.storage.settle_trade(...) }`
SettleAt(t) ==
    /\ pc[t] = "settle"
    /\ accounts' = accounts_with(accounts, req[t].symbol,
                       settle_trade(funds_of(accounts, req[t].symbol),
                                    Head(req[t].trades)))
    /\ req' = [req EXCEPT ![t].trades = Tail(@)]
    /\ At(t, IF Len(req[t].trades) = 1 THEN "refund" ELSE "settle")
    /\ UNCHANGED <<order_books, order_books_lock>>

\* the refund of add_order, the response, and the drop of the guard at the
\* end of the handler
RefundAt(t) ==
    /\ pc[t] = "refund"
    /\ accounts' = accounts_with(accounts, req[t].symbol,
                       refund_placed(funds_of(accounts, req[t].symbol),
                                     req[t].user_id, req[t].side, req[t].quantity,
                                     req[t].price_tick, req[t].order))
    /\ req' = [req EXCEPT ![t].status = IF req[t].order.is_some THEN 201 ELSE 400,
                          ![t].ok = req[t].order.is_some]
    /\ order_books_lock' = 0
    /\ At(t, "responded")
    /\ UNCHANGED order_books

\* cancel_order once order_book.cancel_order has returned c and, on success,
\* get_order_by_id has looked the order up
CancelReturns(t, order_id, price_tick, side, c) ==
    /\ order_books' = [order_books EXCEPT ![req[t].symbol] = c.book]
    /\ req' = [req EXCEPT ![t].order_id = order_id, ![t].price_tick = price_tick,
                          ![t].side = side, ![t].ok = c.ok,
                          ![t].order = IF c.ok THEN get_order_by_id(c.book, order_id)
                                       ELSE NoOrder]
    /\ At(t, IF c.panic # "none" THEN "panicked" ELSE "cancel_refund")

\* order_book.cancel_order(...) and order_book.get_order_by_id(...) under
\* the guard
CancelAt(t) ==
    /\ pc[t] = "cancel_order"
    /\ \E order_id \in 0..(NumTasks - 1), price_tick \in Ticks, side \in OrderSide,
          overflow_checks \in BOOLEAN :
         CancelReturns(t, order_id, price_tick, side,
                       cancel_order(order_books[req[t].symbol], order_id,
                                    price_tick, side, overflow_checks))
    /\ UNCHANGED <<order_books_lock, accounts>>

\* the refund of cancel_order, the response, and the drop of the guard
CancelRefundAt(t) ==
    /\ pc[t] = "cancel_refund"
    /\ accounts' = IF req[t].ok
                   THEN accounts_with(accounts, req[t].symbol,
                            cancel_refund(funds_of(accounts, req[t].symbol),
                                          req[t].user_id, req[t].side,
                                          req[t].price_tick, req[t].order))
                   ELSE accounts
    /\ req' = [req EXCEPT ![t].status = IF req[t].ok THEN 200 ELSE 404]
    /\ order_books_lock' = 0
    /\ At(t, "responded")
    /\ UNCHANGED order_books

\* the book and the ledger of the sequential specifications, and the
\* connections, are no part of the concurrent one
ServerFrame ==
    UNCHANGED <<ask_side, bid_side, order_id_counter, trade_id_counter,
                total_orders, panic, last, funds, ws_vars, lock_vars>>

Receive == ServerFrame /\ \E t \in Tasks : ReceiveAt(t)
ReadMultiplier == ServerFrame /\ \E t \in Tasks : ReadMultiplierAt(t)
Debit == ServerFrame /\ \E t \in Tasks : DebitAt(t)
LockBooks == ServerFrame /\ \E t \in Tasks : LockBooksAt(t)
Match == ServerFrame /\ \E t \in Tasks : MatchAt(t)
Settle == ServerFrame /\ \E t \in Tasks : SettleAt(t)
Refund == ServerFrame /\ \E t \in Tasks : RefundAt(t)
Cancel == ServerFrame /\ \E t \in Tasks : CancelAt(t)
CancelRefund == ServerFrame /\ \E t \in Tasks : CancelRefundAt(t)

ServerNext ==
    \/ Receive \/ ReadMultiplier \/ Debit \/ LockBooks \/ Match \/ Settle
    \/ Refund \/ Cancel \/ CancelRefund

ServerSpec == Init /\ [][ServerNext]_vars

(***************************************************************************)
(* http-server/src/websocket.rs: the /notifications connections beside the *)
(* gateway. A connection appears once it is authenticated. The outgoing    *)
(* task of a connection forwards what its channel receives; no handler of  *)
(* routes/ calls send_trade_notifications, so nothing is ever sent to a    *)
(* channel and the forwarding has no step.                                 *)
(***************************************************************************)
\* send_notification_to_user: tx.send on the Sender stored for user_id
send_notification_to_user(ch, manager, user_id, notification) ==
    IF manager[user_id] # 0
    THEN [ch EXCEPT ![manager[user_id]] = Append(@, notification)]
    ELSE ch

\* send_trade_notifications: to the taker, then to the maker if different
send_trade_notifications(ch, manager, trade, symbol) ==
    IF trade.maker_user_id # trade.taker_user_id
    THEN send_notification_to_user(
             send_notification_to_user(ch, manager, trade.taker_user_id,
                 TradeFill(trade, symbol, trade.taker_user_id)),
             manager, trade.maker_user_id,
             TradeFill(trade, symbol, trade.maker_user_id))
    ELSE send_notification_to_user(ch, manager, trade.taker_user_id,
             TradeFill(trade, symbol, trade.taker_user_id))

\* the gateway's book, ledger and record of the last request, and the
\* concurrent tasks, are untouched by the connections
NotifyFrame ==
    UNCHANGED <<ask_side, bid_side, order_id_counter, trade_id_counter,
                total_orders, panic, last, funds, server_vars, lock_vars>>

\* handle_authenticated_socket up to the spawn of its two tasks: a fresh
\* broadcast channel, whose Sender replaces the user's entry
Connect ==
    /\ NotifyFrame
    /\ \E k \in Sockets, user_id \in Accounts :
         /\ sockets[k] = 0
         /\ sockets' = [sockets EXCEPT ![k] = user_id]
         /\ channel' = [channel EXCEPT ![k] = << >>]
         /\ notification_manager' = [notification_manager EXCEPT ![user_id] = k]

\* handle_authenticated_socket after tokio::select!: the connection is
\* closed and notification_manager.remove(&user_id) drops the user's entry
Disconnect ==
    /\ NotifyFrame
    /\ \E k \in Sockets :
         /\ sockets[k] # 0
         /\ sockets' = [sockets EXCEPT ![k] = 0]
         /\ channel' = [channel EXCEPT ![k] = << >>]
         /\ notification_manager' = [notification_manager EXCEPT ![sockets[k]] = 0]

\* POST /orders while connections come and go
NotifiedPost == order_id_counter < MaxNotified /\ PostOrders

NotifyNext == NotifiedPost \/ DeleteOrders \/ Connect \/ Disconnect

NotifySpec == Init /\ [][NotifyNext]_vars

(***************************************************************************)
(* The Mutexes of AppState and the order in which the handlers take them.  *)
(* Each task serves one request; what a handler computes between two lock  *)
(* operations is left to choice (the branch taken, the number of trades    *)
(* add_order returned, whether the book panicked), so that every lock      *)
(* sequence the handlers can run is a behaviour of LockSpec.               *)
(***************************************************************************)
\* AppState: order_books, storage.accounts and notification_manager
Mutexes == {"order_books", "accounts", "notification_manager"}

\* the routes of main.rs that touch AppState
Routes == {"POST /orders", "DELETE /orders", "GET /depth", "GET /markets",
           "GET /profile", "POST /login", "GET /notifications"}

\* the task that holds the guard of mutex, or 0
holder(mutex) ==
    CASE mutex = "order_books" -> order_books_lock
      [] mutex = "accounts" -> accounts_lock
      [] mutex = "notification_manager" -> notification_manager_lock

\* the mutexes whose guard task t holds
Held(t) == {mutex \in Mutexes : holder(mutex) = t}

\* the mutexes after the guards of dropped went and task t took those of taken
Guards(t, taken, dropped) ==
    /\ order_books_lock' =
           IF "order_books" \in taken THEN t
           ELSE IF "order_books" \in dropped THEN 0 ELSE order_books_lock
    /\ accounts_lock' =
           IF "accounts" \in taken THEN t
           ELSE IF "accounts" \in dropped THEN 0 ELSE accounts_lock
    /\ notification_manager_lock' =
           IF "notification_manager" \in taken THEN t
           ELSE IF "notification_manager" \in dropped THEN 0
           ELSE notification_manager_lock

\* mutex.lock().unwrap() at label from: the task waits while another task
\* holds the guard, takes it when it is free, and panics when the Mutex is
\* poisoned (its holder panicked). A task that panics drops its own guards
\* and so poisons their Mutexes: they stay with the panicked task.
LockAt(t, mutex, from, to) ==
    /\ pc[t] = from
    /\ \/ holder(mutex) = 0 /\ Guards(t, {mutex}, {}) /\ At(t, to)
       \/ /\ holder(mutex) # 0 /\ pc[holder(mutex)] = "panicked"
          /\ Guards(t, {}, {}) /\ At(t, "panicked")
    /\ UNCHANGED req

\* the guard of mutex goes out of scope at label from
UnlockAt(t, mutex, from, tos) ==
    /\ pc[t] = from
    /\ Guards(t, {}, {mutex})
    /\ \E to \in tos : At(t, to)
    /\ UNCHANGED req

\* the handler returns: the guards it still holds are dropped
ReturnAt(t, from) ==
    /\ pc[t] = from
    /\ Guards(t, {}, Held(t))
    /\ At(t, "responded")
    /\ UNCHANGED req

\* where the handler of a route starts once its extractors have run;
\* get_profile answers from what the extractor returned
Entry(op) ==
    CASE op = "POST /orders" -> "tick_multiplier"
      [] op = "DELETE /orders" -> "tick_multiplier"
      [] op = "GET /depth" -> "lock"
      [] op = "GET /markets" -> "lock"
      [] op = "GET /profile" -> "responded"
      [] op = "POST /login" -> "get_or_create_account"
      [] op = "GET /notifications" -> "insert"

\* axum hands a request to its handler: the handlers that take an AuthUser,
\* and the socket that authenticates with its first message, start with
\* the lookup of the user; login answers 400 to an empty email or password
\* before it touches the storage
ArriveAt(t) ==
    /\ pc[t] = "idle"
    /\ \E op \in Routes :
         /\ req' = [req EXCEPT ![t] = Request(op, "BTC-USD", 1, 0)]
         /\ \/ At(t, IF op \in {"GET /markets", "POST /login"} THEN Entry(op)
                     ELSE "auth")
            \/ op = "POST /login" /\ At(t, "responded")
    /\ Guards(t, {}, {})

\* AuthUser::from_request_parts, and handle_socket_with_auth:
\* storage.get_user_by_session_id takes the accounts Mutex. An unknown
\* token ends the request, as does the validation at the head of add_order
\* and get_depth, before any other lock.
AuthenticateAt(t) ==
    \/ LockAt(t, "accounts", "auth", "auth_held")
    \/ UnlockAt(t, "accounts", "auth_held", {Entry(req[t].op), "responded"})

\* debit_funds_for_order that leaves its guard with the handler
DebitFundsReturnsAt_guard_kept(t) ==
    /\ pc[t] = "debit_held"
    /\ Guards(t, {}, {})
    /\ \E to \in {"lock", "responded"} : At(t, to)
    /\ UNCHANGED req

\* storage.debit_funds_for_order returns and its guard is dropped; Err
\* answers 400
DebitFundsReturnsAt(t) ==
    UnlockAt(t, "accounts", "debit_held", {"lock", "responded"})

\* the add_order handler
AddOrderHandlerAt(t) ==
    /\ req[t].op = "POST /orders"
    /\ \/ LockAt(t, "order_books", "tick_multiplier", "tick_multiplier_held")
       \/ UnlockAt(t, "order_books", "tick_multiplier_held", {"debit", "responded"})
       \/ LockAt(t, "accounts", "debit", "debit_held")
       \/ DebitFundsReturnsAt(t)
       \/ LockAt(t, "order_books", "lock", "add_order")
       \* order_book.add_order returns some trades, or panics
       \/ /\ pc[t] = "add_order"
          /\ Guards(t, {}, {})
          /\ \/ \E n \in 0..MaxQty :
                  /\ req' = [req EXCEPT ![t].trades = [i \in 1..n |-> i]]
                  /\ At(t, IF n > 0 THEN "settle" ELSE "refund")
             \/ At(t, "panicked") /\ UNCHANGED req
       \* storage.settle_trade for each trade
       \/ LockAt(t, "accounts", "settle", "settle_held")
       \/ /\ pc[t] = "settle_held"
          /\ Guards(t, {}, {"accounts"})
          /\ req' = [req EXCEPT ![t].trades = Tail(@)]
          /\ At(t, IF Len(req[t].trades) > 1 THEN "settle" ELSE "refund")
       \* credit_funds_back, handle_partial_fill_refund, or neither
       \/ pc[t] = "refund" /\ Guards(t, {}, {}) /\ At(t, "return") /\ UNCHANGED req
       \/ LockAt(t, "accounts", "refund", "refund_held")
       \/ UnlockAt(t, "accounts", "refund_held", {"return"})
       \/ ReturnAt(t, "return")

\* the cancel_order handler
CancelOrderHandlerAt(t) ==
    /\ req[t].op = "DELETE /orders"
    /\ \/ LockAt(t, "order_books", "tick_multiplier", "tick_multiplier_held")
       \/ UnlockAt(t, "order_books", "tick_multiplier_held", {"lock", "responded"})
       \/ LockAt(t, "order_books", "lock", "cancel_order")
       \* order_book.cancel_order returns, or panics
       \/ /\ pc[t] = "cancel_order"
          /\ Guards(t, {}, {})
          /\ \E to \in {"cancel_refund", "return", "panicked"} : At(t, to)
          /\ UNCHANGED req
       \/ LockAt(t, "accounts", "cancel_refund", "cancel_refund_held")
       \/ UnlockAt(t, "accounts", "cancel_refund_held", {"return"})
       \/ ReturnAt(t, "return")

\* the get_depth handler
GetDepthHandlerAt(t) ==
    /\ req[t].op = "GET /depth"
    /\ \/ LockAt(t, "order_books", "lock", "get_depth")
       \/ ReturnAt(t, "get_depth")

\* the get_markets handler
GetMarketsAt(t) ==
    /\ req[t].op = "GET /markets"
    /\ \/ LockAt(t, "order_books", "lock", "get_markets")
       \/ ReturnAt(t, "get_markets")

\* the login handler: storage.get_or_create_account_with_session
LoginAt(t) ==
    /\ req[t].op = "POST /login"
    /\ \/ LockAt(t, "accounts", "get_or_create_account", "get_or_create_account_held")
       \/ UnlockAt(t, "accounts", "get_or_create_account_held", {"return"})
       \/ ReturnAt(t, "return")

\* handle_authenticated_socket: insert into the manager, serve the socket
\* until tokio::select! completes, remove from the manager
NotificationsAt(t) ==
    /\ req[t].op = "GET /notifications"
    /\ \/ LockAt(t, "notification_manager", "insert", "insert_held")
       \/ UnlockAt(t, "notification_manager", "insert_held", {"open"})
       \/ LockAt(t, "notification_manager", "remove", "remove_held")
       \/ UnlockAt(t, "notification_manager", "remove_held", {"return"})
       \/ ReturnAt(t, "return")

\* the client closes its socket, or a send to it fails
CloseAt(t) ==
    /\ req[t].op = "GET /notifications"
    /\ pc[t] = "open"
    /\ Guards(t, {}, {})
    /\ At(t, "remove")
    /\ UNCHANGED req

LockFrame ==
    UNCHANGED <<ask_side, bid_side, order_id_counter, trade_id_counter,
                total_orders, panic, last, funds, order_books, accounts, ws_vars>>

Arrive == LockFrame /\ \E t \in Tasks : ArriveAt(t)
Authenticate == LockFrame /\ \E t \in Tasks : AuthenticateAt(t)
AddOrderHandler == LockFrame /\ \E t \in Tasks : AddOrderHandlerAt(t)
CancelOrderHandler == LockFrame /\ \E t \in Tasks : CancelOrderHandlerAt(t)
GetDepthHandler == LockFrame /\ \E t \in Tasks : GetDepthHandlerAt(t)
GetMarkets == LockFrame /\ \E t \in Tasks : GetMarketsAt(t)
Login == LockFrame /\ \E t \in Tasks : LoginAt(t)
Notifications == LockFrame /\ \E t \in Tasks : NotificationsAt(t)
Close == LockFrame /\ \E t \in Tasks : CloseAt(t)

LockNext ==
    \/ Arrive \/ Authenticate \/ AddOrderHandler \/ CancelOrderHandler
    \/ GetDepthHandler \/ GetMarkets \/ Login \/ Notifications
    \/ Close

LockSpec == Init /\ [][LockNext]_vars

\* the steps task t takes by itself once its request has arrived
Runs(t) ==
    /\ LockFrame
    /\ \/ AuthenticateAt(t) \/ AddOrderHandlerAt(t) \/ CancelOrderHandlerAt(t)
       \/ GetDepthHandlerAt(t) \/ GetMarketsAt(t) \/ LoginAt(t)
       \/ NotificationsAt(t)

\* the tokio runtime keeps polling every task that can take a step, and a
\* task that waits for a Mutex is woken when its guard is dropped. No
\* request has to arrive and no client has to close its socket.
FairLockSpec == LockSpec /\ \A t \in Tasks : WF_vars(Runs(t))

(***************************************************************************)
(* Vocabulary of the properties                                            *)
(***************************************************************************)
IsAdd(c) == c.op = "add_order"
IsCancel(c) == c.op = "cancel_order"

\* the side of book b an incoming order of the given side matches against
Opposite(b, side) == SideOf(b, OppositeOf(side))

\* the orders stored on a side, each with the key of its level and its position
Stored(side) ==
    UNION {{[tick |-> t, pos |-> i, order |-> side.levels[t].orders[i]] :
              i \in 1..Len(side.levels[t].orders)} : t \in DOMAIN side.levels}

Live(o) == ~o.is_cancelled

RECURSIVE LiveQuantity(_)
\* sum of the residuals of the non-cancelled orders of a queue
LiveQuantity(q) ==
    IF Len(q) = 0 THEN 0
    ELSE (IF Live(Head(q)) THEN Residual(Head(q)) ELSE 0) + LiveQuantity(Tail(q))

RECURSIVE TradedQuantity(_)
\* sum of the quantities of a list of trades
TradedQuantity(ts) ==
    IF Len(ts) = 0 THEN 0 ELSE Head(ts).quantity + TradedQuantity(Tail(ts))

RECURSIVE TakenFrom(_, _, _)
\* the quantity the first n trades of ts took from the maker with this id
TakenFrom(ts, n, maker_id) ==
    IF n = 0 THEN 0
    ELSE (IF ts[n].maker_order_id = maker_id THEN ts[n].quantity ELSE 0)
         + TakenFrom(ts, n - 1, maker_id)

\* the ticks of a side an incoming order (side, price_tick) may trade at:
\* every tick for a market order, the ticks within the limit otherwise
Matchable(side, price_tick, tick) ==
    \/ price_tick = 0
    \/ side = "Bid" /\ tick <= price_tick
    \/ side = "Ask" /\ tick >= price_tick

(***************************************************************************)
(* C1. Price priority across levels: each trade of an incoming order is    *)
(* made at the best-priced level of the opposite side that holds live      *)
(* quantity at the moment of the trade (lowest ask for a Bid taker,        *)
(* highest bid for an Ask taker).                                          *)
(***************************************************************************)
C1_PricePriority ==
    IsAdd(last) =>
        \A i \in 1..Len(last.trades) :
            last.fills[i] = Some(last.trades[i].price_tick)

(***************************************************************************)
(* C2. Price bound and maker price: every trade carries the price_tick of  *)
(* the resting order it was made against, which is the key of the level    *)
(* that order was stored at before the call; a limit Bid trades at ticks   *)
(* <= its price, a limit Ask at ticks >= its price, and a limit order      *)
(* whose price does not cross any opposite level produces no trade.        *)
(***************************************************************************)
C2_MakerAt(trade, opp) ==
    \E s \in Stored(opp) :
        /\ s.order.id = trade.maker_order_id
        /\ s.tick = trade.price_tick
        /\ s.order.price_tick = trade.price_tick

C2_Step ==
    IsAdd(last') =>
        LET opp == Opposite(Book, last'.side)
            crossing == {t \in DOMAIN opp.levels :
                            Matchable(last'.side, last'.price_tick, t)}
        IN  /\ \A i \in 1..Len(last'.trades) :
                 /\ C2_MakerAt(last'.trades[i], opp)
                 /\ Matchable(last'.side, last'.price_tick,
                              last'.trades[i].price_tick)
            /\ (crossing = {} => last'.trades = << >>)

C2_PriceBound == [][C2_Step]_vars

\* a limit Bid that traded below its own price
C2_Witness ==
    /\ IsAdd(last) /\ last.side = "Bid" /\ last.price_tick > 0
    /\ Len(last.trades) > 0
    /\ last.trades[1].price_tick < last.price_tick

(***************************************************************************)
(* C3. Time priority: within one price level live resting orders are       *)
(* matched in order of arrival. When a trade is made against a maker,      *)
(* every live order that was stored at the maker's level with a lower id   *)
(* has already been filled completely by the earlier trades of the call;   *)
(* so a partially filled maker is matched ahead of later arrivals.         *)
(***************************************************************************)
C3_Step ==
    IsAdd(last') =>
        LET opp == Opposite(Book, last'.side)
        IN  \A i \in 1..Len(last'.trades) :
              \A s \in Stored(opp) :
                 ( /\ s.tick = last'.trades[i].price_tick
                   /\ Live(s.order)
                   /\ s.order.id < last'.trades[i].maker_order_id )
                 => TakenFrom(last'.trades, i - 1, s.order.id) = Residual(s.order)

C3_TimePriority == [][C3_Step]_vars

\* orders 0 and 1 rest at one level; order 2 took part of order 0 (trade 0);
\* order 3 has now traded with order 0 again (trade 1), order 1 untouched
C3_Witness ==
    /\ IsAdd(last) /\ last.order_id = 3
    /\ Len(last.trades) = 1
    /\ last.trades[1].id = 1
    /\ last.trades[1].maker_order_id = 0
    /\ \E s \in Stored(Opposite(Book, last.side)) :
          /\ s.tick = last.trades[1].price_tick
          /\ s.order.id = 1
          /\ Live(s.order)
          /\ s.order.quantity_filled = 0

(***************************************************************************)
(* C4. FOK atomicity: when add_order with FOK returns (None, []), both     *)
(* sides of the book, total_orders and trade_id_counter are as before the  *)
(* call; only order_id_counter may have advanced.                          *)
(***************************************************************************)
C4_Step ==
    ( /\ IsAdd(last')
      /\ last'.time_in_force = "FOK"
      /\ panic' = "none"
      /\ ~last'.order.is_some
      /\ last'.trades = << >> )
    => /\ ask_side' = ask_side
       /\ bid_side' = bid_side
       /\ total_orders' = total_orders
       /\ trade_id_counter' = trade_id_counter

C4_FokAtomicity == [][C4_Step]_vars

\* a FOK order refused although the opposite side holds quantity within
\* its price
C4_Witness ==
    /\ IsAdd(last) /\ last.time_in_force = "FOK"
    /\ ~last.order.is_some /\ last.trades = << >>
    /\ \E t \in DOMAIN Opposite(Book, last.side).levels :
          Matchable(last.side, last.price_tick, t)

(***************************************************************************)
(* C5. FOK all-or-nothing: a FOK order is refused with (None, []) exactly  *)
(* when the live quantity of the opposite side within its matchable price  *)
(* range is less than its quantity; otherwise it returns Some(order),      *)
(* filled in full by trades that sum to its quantity. The branch           *)
(* 'FOK with residual' of add_order is never reached.                      *)
(***************************************************************************)
\* live quantity, counted order by order, of a side within the range
RECURSIVE C5_Available(_, _, _, _)
C5_Available(opp, side, price_tick, ticks) ==
    IF ticks = {} THEN 0
    ELSE LET t == CHOOSE x \in ticks : TRUE
         IN  (IF Matchable(side, price_tick, t)
              THEN LiveQuantity(opp.levels[t].orders) ELSE 0)
             + C5_Available(opp, side, price_tick, ticks \ {t})

C5_Step ==
    (IsAdd(last') /\ last'.time_in_force = "FOK") =>
        LET opp == Opposite(Book, last'.side)
            available == C5_Available(opp, last'.side, last'.price_tick,
                                      DOMAIN opp.levels)
        IN  /\ panic' = "none"
            /\ IF available < last'.quantity
               THEN ~last'.order.is_some /\ last'.trades = << >>
               ELSE /\ last'.order.is_some
                    /\ last'.order.v.quantity_filled = last'.quantity
                    /\ last'.order.v.quantity = last'.quantity
                    /\ TradedQuantity(last'.trades) = last'.quantity

C5_FokAllOrNothing == [][C5_Step]_vars

\* a FOK order filled by two trades on a side that still stores a cancelled
\* order
C5_Witness ==
    /\ IsAdd(last) /\ last.time_in_force = "FOK"
    /\ last.order.is_some
    /\ Len(last.trades) = 2
    /\ \E s \in Stored(Opposite(Book, last.side)) : ~Live(s.order)

(***************************************************************************)
(* C6. IOC non-resting: after add_order with IOC no order with the         *)
(* taker's id is stored in any level; with residual left the call returns  *)
(* (None, trades), and fully filled it returns Some(order) with            *)
(* quantity_filled = quantity.                                             *)
(***************************************************************************)
C6_IocNonResting ==
    (IsAdd(last) /\ last.time_in_force = "IOC" /\ panic = "none") =>
        /\ \A s \in Stored(bid_side) \cup Stored(ask_side) :
              s.order.id # last.order_id
        /\ IF TradedQuantity(last.trades) < last.quantity
           THEN ~last.order.is_some
           ELSE /\ last.order.is_some
                /\ last.order.v.id = last.order_id
                /\ last.order.v.quantity_filled = last.order.v.quantity
                /\ last.order.v.quantity = last.quantity

\* an IOC order filled in part: trades returned, no order returned
C6_Witness ==
    /\ IsAdd(last) /\ last.time_in_force = "IOC"
    /\ ~last.order.is_some
    /\ Len(last.trades) > 0
    /\ TradedQuantity(last.trades) < last.quantity

(***************************************************************************)
(* C7. Only GTC limit orders rest: every order stored in a level has       *)
(* time_in_force GTC, a price_tick > 0 equal to the key of its level, the  *)
(* side it is stored on, and (unless cancelled) 0 <= quantity_filled <     *)
(* quantity; no level exists at tick 0.                                    *)
(***************************************************************************)
C7_SideOk(side, name) ==
    /\ 0 \notin DOMAIN side.levels
    /\ \A s \in Stored(side) :
          /\ s.order.time_in_force = "GTC"
          /\ s.order.price_tick > 0
          /\ s.order.price_tick = s.tick
          /\ s.order.side = name
          /\ s.order.quantity > 0
          /\ s.order.quantity_filled >= 0
          /\ s.order.quantity_filled <= s.order.quantity
          /\ (Live(s.order) => s.order.quantity_filled < s.order.quantity)

C7_OnlyGtcLimitRest == C7_SideOk(bid_side, "Bid") /\ C7_SideOk(ask_side, "Ask")

\* a market order was filled in part and returned without being stored,
\* while a partially filled limit order is stored
C7_Witness ==
    /\ IsAdd(last) /\ last.price_tick = 0 /\ last.time_in_force = "GTC"
    /\ last.order.is_some
    /\ last.order.v.quantity_filled < last.order.v.quantity
    /\ \E s \in Stored(bid_side) \cup Stored(ask_side) :
          s.order.quantity_filled > 0

(***************************************************************************)
(* C8. No empty levels: every level stored on either side has              *)
(* total_quantity > 0, total_quantity equal to the sum of the residuals    *)
(* of its non-cancelled orders, and at least one non-cancelled order.      *)
(***************************************************************************)
C8_SideOk(side) ==
    \A t \in DOMAIN side.levels :
        LET level == side.levels[t]
        IN  /\ level.total_quantity > 0
            /\ level.total_quantity = LiveQuantity(level.orders)
            /\ \E i \in 1..Len(level.orders) : Live(level.orders[i])

C8_NoEmptyLevels == C8_SideOk(bid_side) /\ C8_SideOk(ask_side)

\* a cancellation left a cancelled order in a level next to a live,
\* partially filled one
C8_Witness ==
    /\ IsCancel(last) /\ last.ok
    /\ \E t \in DOMAIN SideOf(Book, last.side).levels :
          LET q == SideOf(Book, last.side).levels[t].orders
          IN  /\ \E i \in 1..Len(q) : ~Live(q[i])
              /\ \E i \in 1..Len(q) : Live(q[i]) /\ q[i].quantity_filled > 0

(***************************************************************************)
(* C9. Best/worst tick cache: on each side best_tick and worst_tick are    *)
(* None iff the side has no level; otherwise best_tick is the maximum and  *)
(* worst_tick the minimum key for bids, and the reverse for asks.          *)
(***************************************************************************)
C9_SideOk(side) ==
    LET keys == DOMAIN side.levels
    IN  IF keys = {}
        THEN side.best_tick = None /\ side.worst_tick = None
        ELSE IF side.higher_is_better
        THEN /\ side.best_tick = Some(SetMax(keys))
             /\ side.worst_tick = Some(SetMin(keys))
        ELSE /\ side.best_tick = Some(SetMin(keys))
             /\ side.worst_tick = Some(SetMax(keys))

C9_TickCache ==
    /\ bid_side.higher_is_better /\ ~ask_side.higher_is_better
    /\ C9_SideOk(bid_side) /\ C9_SideOk(ask_side)

\* matching consumed the level at the taker's best opposite tick and left
\* another level on that side
C9_Witness ==
    /\ IsAdd(last) /\ Len(last.trades) > 0
    /\ LET opp == Opposite(Book, last.side)
       IN  /\ DOMAIN opp.levels # {}
           /\ last.trades[1].price_tick \notin DOMAIN opp.levels
           /\ opp.best_tick.is_some

(***************************************************************************)
(* C10. total_orders accounting: total_orders is the number of             *)
(* non-cancelled orders with positive residual stored on both sides.       *)
(***************************************************************************)
C10_LiveOrders(side) ==
    {s \in Stored(side) : Live(s.order) /\ Residual(s.order) > 0}

C10_TotalOrders ==
    /\ panic # "total_orders_overflow"
    /\ total_orders >= 0
    /\ total_orders = Cardinality(C10_LiveOrders(bid_side))
                      + Cardinality(C10_LiveOrders(ask_side))

\* a maker was filled completely, an order was cancelled, one still rests
C10_Witness ==
    /\ IsCancel(last) /\ last.ok
    /\ trade_id_counter > 0
    /\ total_orders = 1

(***************************************************************************)
(* C11. Monotonic ids: order_id_counter and trade_id_counter start at 0    *)
(* and never decrease; every add_order call takes the next order id, so    *)
(* the order it returns carries the counter's value before the call and    *)
(* the counter advances by one; the trades of a call are numbered from     *)
(* trade_id_counter upwards by one, in emission order, and the counter     *)
(* advances by their number (no gap, no duplicate); cancel_order touches   *)
(* neither counter.                                                        *)
(***************************************************************************)
C11_Step ==
    /\ order_id_counter' >= order_id_counter
    /\ trade_id_counter' >= trade_id_counter
    /\ IsAdd(last') =>
          /\ order_id_counter' = order_id_counter + 1
          /\ last'.order.is_some => last'.order.v.id = order_id_counter
          /\ \A i \in 1..Len(last'.trades) :
                /\ last'.trades[i].id = trade_id_counter + i - 1
                /\ last'.trades[i].taker_order_id = order_id_counter
          /\ trade_id_counter' = trade_id_counter + Len(last'.trades)
    /\ ~IsAdd(last') =>
          /\ order_id_counter' = order_id_counter
          /\ trade_id_counter' = trade_id_counter

C11_MonotonicIds ==
    /\ order_id_counter = 0 /\ trade_id_counter = 0
    /\ [][C11_Step]_vars

\* a call that emitted two trades after an earlier call had emitted one
C11_Witness ==
    /\ IsAdd(last) /\ last.order.is_some
    /\ Len(last.trades) = 2
    /\ last.trades[1].id = 1 /\ last.trades[2].id = 2
    /\ trade_id_counter = 3

(***************************************************************************)
(* C12. Cancelled orders are dead. A successful cancel_order flags a live  *)
(* stored order and takes its residual out of its level's total_quantity   *)
(* (and one out of total_orders), or removes the level when nothing live   *)
(* is left in it. From then on the order is never a maker: every trade is  *)
(* made against an order that was stored live before the call, a flagged   *)
(* order never becomes live again and a removed id never comes back. The   *)
(* residual of a flagged order counts neither in total_quantity, nor in    *)
(* get_depth, nor in can_fill_fok. A matching pass that trades with an     *)
(* order queued behind a flagged one has discarded the flagged one.        *)
(***************************************************************************)
C12_Ids(side) == {s.order.id : s \in Stored(side)}

C12_Dead(side) == {s \in Stored(side) : ~Live(s.order)}

\* a trade of ts was made against an order queued behind s in s's level
C12_Passed(ts, opp, s) ==
    \E i \in 1..Len(ts) : \E s2 \in Stored(opp) :
        /\ s2.order.id = ts[i].maker_order_id
        /\ s2.tick = s.tick
        /\ s2.pos > s.pos

C12_NoRevival(side_before, side_after) ==
    \A s \in C12_Dead(side_before) : \A s2 \in Stored(side_after) :
        s2.order.id = s.order.id => ~Live(s2.order) /\ s2.tick = s.tick

C12_AddStep ==
    IsAdd(last') =>
        LET opp == Opposite(Book, last'.side)
            opp_after == IF last'.side = "Bid" THEN ask_side' ELSE bid_side'
        IN  /\ \A i \in 1..Len(last'.trades) :
                 \E s \in Stored(opp) :
                     /\ s.order.id = last'.trades[i].maker_order_id
                     /\ Live(s.order)
            /\ \A s \in C12_Dead(opp) :
                 C12_Passed(last'.trades, opp, s) =>
                     /\ s.order.id \notin C12_Ids(opp_after)
                     /\ \E j \in 1..Len(last'.dropped) :
                           last'.dropped[j] = s.order.id
            /\ \A j \in 1..Len(last'.dropped) :
                 /\ last'.dropped[j] \in {s.order.id : s \in C12_Dead(opp)}
                 /\ last'.dropped[j] \notin C12_Ids(opp_after)

C12_CancelStep ==
    (IsCancel(last') /\ last'.ok) =>
        LET side == SideOf(Book, last'.side)
            side_after == IF last'.side = "Bid" THEN bid_side' ELSE ask_side'
        IN  /\ total_orders' = total_orders - 1
            /\ \E s \in Stored(side) :
                 /\ s.order.id = last'.order_id
                 /\ s.tick = last'.price_tick
                 /\ Live(s.order)
                 /\ IF side.levels[s.tick].total_quantity = Residual(s.order)
                    THEN s.tick \notin DOMAIN side_after.levels
                    ELSE /\ s.tick \in DOMAIN side_after.levels
                         /\ side_after.levels[s.tick].total_quantity
                              = side.levels[s.tick].total_quantity - Residual(s.order)
                         /\ side_after.levels[s.tick].orders
                              = [side.levels[s.tick].orders
                                   EXCEPT ![s.pos].is_cancelled = TRUE]

C12_Step ==
    /\ C12_AddStep
    /\ C12_CancelStep
    /\ C12_NoRevival(bid_side, bid_side') /\ C12_NoRevival(ask_side, ask_side')
    /\ (C12_Ids(bid_side') \cup C12_Ids(ask_side'))
          \subseteq (C12_Ids(bid_side) \cup C12_Ids(ask_side) \cup {order_id_counter})

\* the quantities the three readers see are those of the live orders only
C12_Excluded(side, taker_side) ==
    /\ \A t \in DOMAIN side.levels :
          side.levels[t].total_quantity = LiveQuantity(side.levels[t].orders)
    /\ \A price_tick \in Ticks, quantity \in Quantities :
          can_fill_fok(Book, Order(order_id_counter, 1, price_tick, quantity,
                                   taker_side, "FOK"))
            <=> C5_Available(side, taker_side, price_tick, DOMAIN side.levels)
                  >= quantity

C12_DepthExcluded(entries, side) ==
    \A i \in 1..Len(entries) :
        entries[i].quantity = LiveQuantity(side.levels[entries[i].price_tick].orders)

C12_Inv ==
    /\ C12_Excluded(bid_side, "Ask") /\ C12_Excluded(ask_side, "Bid")
    /\ C12_DepthExcluded(get_depth(Book, MaxDepth).bids, bid_side)
    /\ C12_DepthExcluded(get_depth(Book, MaxDepth).asks, ask_side)

C12_CancelledAreDead == []C12_Inv /\ [][C12_Step]_vars

\* matching discarded a cancelled order and traded with the order behind it,
\* which is still stored
C12_Witness ==
    /\ IsAdd(last) /\ Len(last.dropped) > 0 /\ Len(last.trades) > 0
    /\ \E s \in Stored(Opposite(Book, last.side)) :
          /\ s.order.id = last.trades[Len(last.trades)].maker_order_id
          /\ s.order.id > last.dropped[1]

(***************************************************************************)
(* C13. Cancel failure and idempotence: in every reachable state of the    *)
(* book, cancel_order(id, price_tick, side) for which no live order with   *)
(* that id is stored at that side and price (no such order, wrong price,   *)
(* wrong side, or already cancelled) returns false without panicking and   *)
(* leaves the book as it was, under either overflow profile.               *)
(***************************************************************************)
C13_LiveAt(order_id, price_tick, side) ==
    \E s \in Stored(SideOf(Book, side)) :
        /\ s.order.id = order_id
        /\ s.tick = price_tick
        /\ Live(s.order)

C13_CancelFailure ==
    panic = "none" =>
        \A order_id \in 0..(MaxOrders - 1), price_tick \in Ticks, side \in OrderSide :
            ~C13_LiveAt(order_id, price_tick, side) =>
                \A r \in cancel_outcomes(Book, order_id, price_tick, side) :
                    /\ ~r.ok
                    /\ r.panic = "none"
                    /\ r.book = Book

(***************************************************************************)
(* C14. Depth contract: get_depth(k) returns, per side, min(k, number of   *)
(* levels) entries; the i-th bid entry is the level with the i-th highest  *)
(* key and the i-th ask entry the level with the i-th lowest key (so bids  *)
(* are strictly descending and asks strictly ascending from the best       *)
(* tick); each entry's quantity is the sum of the residuals of the         *)
(* non-cancelled orders at its tick, which is > 0; the call leaves the     *)
(* book as it was.                                                         *)
(***************************************************************************)
IsDepth(c) == c.op = "get_depth"

C14_SideOk(entries, side, k) ==
    LET keys == DOMAIN side.levels
    IN  /\ Len(entries) = Min(k, Cardinality(keys))
        /\ Len(entries) > 0 => Some(entries[1].price_tick) = side.best_tick
        /\ \A i \in 1..Len(entries) :
              /\ entries[i].price_tick \in keys
              /\ Cardinality({t \in keys :
                     IF side.higher_is_better THEN t > entries[i].price_tick
                     ELSE t < entries[i].price_tick}) = i - 1
              /\ entries[i].quantity
                   = LiveQuantity(side.levels[entries[i].price_tick].orders)
              /\ entries[i].quantity > 0

C14_Inv ==
    IsDepth(last) =>
        /\ C14_SideOk(last.depth.bids, bid_side, last.levels)
        /\ C14_SideOk(last.depth.asks, ask_side, last.levels)

C14_Step ==
    IsDepth(last') =>
        UNCHANGED <<ask_side, bid_side, order_id_counter, trade_id_counter,
                    total_orders, panic>>

C14_DepthContract == []C14_Inv /\ [][C14_Step]_vars

\* one level asked of a bid side that has two, one of them holding a
\* cancelled order next to a live one
C14_Witness ==
    /\ IsDepth(last) /\ last.levels = 1
    /\ Cardinality(DOMAIN bid_side.levels) = 2
    /\ Len(last.depth.bids) = 1
    /\ \E s \in Stored(bid_side) : ~Live(s.order) /\ s.tick = last.depth.bids[1].price_tick

(***************************************************************************)
(* Vocabulary of the gateway properties                                    *)
(***************************************************************************)
IsPost(c) == c.op = "POST /orders"
IsDelete(c) == c.op = "DELETE /orders"

RECURSIVE SumOver(_, _)
\* the sum of f[u] over the users of a set
SumOver(f, users) ==
    IF users = {} THEN 0
    ELSE f[CHOOSE u \in users : TRUE]
         + SumOver(f, users \ {CHOOSE u \in users : TRUE})

RECURSIVE Locked(_, _)
\* the collateral of the live orders of a set of stored orders: residual x
\* price for a Bid, residual for an Ask
Locked(stored, in_usd) ==
    IF stored = {} THEN 0
    ELSE (IF Live((CHOOSE s \in stored : TRUE).order)
          THEN Residual((CHOOSE s \in stored : TRUE).order)
               * (IF in_usd THEN (CHOOSE s \in stored : TRUE).order.price_tick ELSE 1)
          ELSE 0)
         + Locked(stored \ {CHOOSE s \in stored : TRUE}, in_usd)

(***************************************************************************)
(* C15. Place/cancel round trip: a GTC limit order placed through the      *)
(* gateway that does not match (returned with quantity_filled = 0, so it   *)
(* rests) lowers its user's balance by the entry debit only (quantity x    *)
(* price in USD for a Bid, quantity in base for an Ask), and the           *)
(* successful cancellation of such an order by its user, while it is       *)
(* still unmatched, raises the user's balance by that same amount - also   *)
(* when the order is the only one at its price level, so that the cancel   *)
(* removes the level. Placing and then cancelling therefore restores the   *)
(* balances.                                                               *)
(***************************************************************************)
C15_Entry(side, quantity, price_tick) ==
    IF side = "Bid" THEN UserFunds(0, quantity * price_tick)
    ELSE UserFunds(quantity, 0)

C15_PlaceStep ==
    ( /\ IsPost(last') /\ panic' = "none"
      /\ last'.time_in_force = "GTC" /\ last'.price_tick > 0
      /\ last'.order.is_some
      /\ last'.order.v.quantity_filled = 0 )
    => /\ funds'[last'.user_id].base
            = funds[last'.user_id].base
              - C15_Entry(last'.side, last'.quantity, last'.price_tick).base
       /\ funds'[last'.user_id].usd
            = funds[last'.user_id].usd
              - C15_Entry(last'.side, last'.quantity, last'.price_tick).usd

C15_CancelStep ==
    (IsDelete(last') /\ last'.status = 200) =>
        \A s \in Stored(SideOf(Book, last'.side)) :
            ( /\ s.order.id = last'.order_id
              /\ s.order.user_id = last'.user_id
              /\ s.order.quantity_filled = 0 )
            => /\ funds'[last'.user_id].base
                    = funds[last'.user_id].base
                      + C15_Entry(s.order.side, s.order.quantity,
                                  s.order.price_tick).base
               /\ funds'[last'.user_id].usd
                    = funds[last'.user_id].usd
                      + C15_Entry(s.order.side, s.order.quantity,
                                  s.order.price_tick).usd

C15_RoundTrip == [][C15_PlaceStep /\ C15_CancelStep]_vars

(***************************************************************************)
(* C16. Conservation: a request in which no trade is a self-trade leaves   *)
(* unchanged the total USD (the users' USD balances plus residual x price  *)
(* of the live resting Bids) and the total base asset (the users' base     *)
(* balances plus the residuals of the live resting Asks).                  *)
(***************************************************************************)
C16_TotalUsd(f, bids) ==
    SumOver([u \in Accounts |-> f[u].usd], Accounts) + Locked(Stored(bids), TRUE)

C16_TotalBase(f, asks) ==
    SumOver([u \in Accounts |-> f[u].base], Accounts) + Locked(Stored(asks), FALSE)

C16_Step ==
    ( /\ panic' = "none"
      /\ \A i \in 1..Len(last'.trades) :
            last'.trades[i].taker_user_id # last'.trades[i].maker_user_id )
    => /\ C16_TotalUsd(funds', bid_side') = C16_TotalUsd(funds, bid_side)
       /\ C16_TotalBase(funds', ask_side') = C16_TotalBase(funds, ask_side)

C16_Conservation == [][C16_Step]_vars

(***************************************************************************)
(* C17. Settlement direction: the settlements of a placement whose trades  *)
(* are all between two different users move, per trade, qty of base to     *)
(* the taker and qty x price of USD to the maker when the taker is the     *)
(* Bid, and qty of base to the maker and qty x price of USD to the taker   *)
(* when the taker is the Ask.                                              *)
(***************************************************************************)
C17_Buys(f, buyer, seller, trade) ==
    [f EXCEPT
       ![buyer] = UserFunds(@.base + trade.quantity,
                            @.usd - trade.quantity * trade.price_tick),
       ![seller] = UserFunds(@.base - trade.quantity,
                             @.usd + trade.quantity * trade.price_tick)]

RECURSIVE C17_Settled(_, _, _)
C17_Settled(f, trades, taker_side) ==
    IF Len(trades) = 0 THEN f
    ELSE C17_Settled(
           IF taker_side = "Bid"
           THEN C17_Buys(f, Head(trades).taker_user_id, Head(trades).maker_user_id,
                         Head(trades))
           ELSE C17_Buys(f, Head(trades).maker_user_id, Head(trades).taker_user_id,
                         Head(trades)),
           Tail(trades), taker_side)

C17_SettlementDirection ==
    ( /\ IsPost(last) /\ panic = "none" /\ Len(last.trades) > 0
      /\ \A i \in 1..Len(last.trades) :
            last.trades[i].taker_user_id # last.trades[i].maker_user_id )
    => last.funds_settled = C17_Settled(last.funds_debited, last.trades, last.side)

(***************************************************************************)
(* C18. Net effect of a fill with price improvement: when a limit order    *)
(* of user B is filled in full, quantity q, by one trade at the maker's    *)
(* price p against the resting order of another user A, the request        *)
(* changes B's balances by exactly the trade (Bid taker: USD - q*p, base   *)
(* + q; Ask taker: base - q, USD + q*p) and gives A the other side of the  *)
(* trade on top of what A's balances were after A's own placement, whose   *)
(* entry debit already took the collateral (Ask maker: USD + q*p, base     *)
(* unchanged, so lower by q than before A placed; Bid maker: base + q,     *)
(* USD unchanged).                                                         *)
(***************************************************************************)
C18_Step ==
    ( /\ IsPost(last') /\ panic' = "none"
      /\ last'.price_tick > 0
      /\ last'.order.is_some
      /\ last'.order.v.quantity_filled = last'.quantity
      /\ Len(last'.trades) = 1
      /\ last'.trades[1].maker_user_id # last'.user_id )
    => LET B == last'.user_id
           A == last'.trades[1].maker_user_id
           q == last'.quantity
           p == last'.trades[1].price_tick
       IN  IF last'.side = "Bid"
           THEN /\ funds'[B] = UserFunds(funds[B].base + q, funds[B].usd - q * p)
                /\ funds'[A] = UserFunds(funds[A].base, funds[A].usd + q * p)
           ELSE /\ funds'[B] = UserFunds(funds[B].base - q, funds[B].usd + q * p)
                /\ funds'[A] = UserFunds(funds[A].base + q, funds[A].usd)

C18_NetEffect == [][C18_Step]_vars

(***************************************************************************)
(* C19. Self-trade wash: when every trade of a placement is a self-trade,  *)
(* the settlements credit back to the user, for each trade, what was       *)
(* debited at entry for its two legs: the traded quantity in base (the     *)
(* Ask leg) and the traded quantity times the Bid leg's entry price in     *)
(* USD. So a user who places a resting Ask p x q and then a Bid p x q      *)
(* that matches it in one trade ends with the balances held before the     *)
(* first order.                                                            *)
(***************************************************************************)
RECURSIVE C19_Credited(_, _, _, _)
C19_Credited(f, trades, taker_side, taker_price) ==
    IF Len(trades) = 0 THEN f
    ELSE C19_Credited(
           [f EXCEPT ![Head(trades).taker_user_id] =
               UserFunds(@.base + Head(trades).quantity,
                         @.usd + Head(trades).quantity
                                 * (IF taker_side = "Bid" THEN taker_price
                                    ELSE Head(trades).price_tick))],
           Tail(trades), taker_side, taker_price)

C19_SelfTradeWash ==
    ( /\ IsPost(last) /\ panic = "none" /\ Len(last.trades) > 0
      /\ \A i \in 1..Len(last.trades) :
            last.trades[i].taker_user_id = last.trades[i].maker_user_id )
    => last.funds_settled
         = C19_Credited(last.funds_debited, last.trades, last.side, last.price_tick)

(***************************************************************************)
(* C20. Non-negative balances: after every completed request every         *)
(* user's USD balance and base balance is >= 0.                            *)
(***************************************************************************)
C20_NonNegative ==
    \A u \in Accounts : funds[u].usd >= 0 /\ funds[u].base >= 0

(***************************************************************************)
(* C21..C30                                                                *)
(***************************************************************************)
\* the balance an order of this side is paid from, and what it costs
Balance(f, user_id, side) ==
    IF side = "Bid" THEN f[user_id].usd ELSE f[user_id].base

EntryCost(side, quantity, price_tick) ==
    IF side = "Bid" THEN cost_amount(quantity, price_tick) ELSE quantity

\* the ledger f with the balance of user_id on this side lowered by amount
Lowered(f, user_id, side, amount) ==
    IF side = "Bid" THEN [f EXCEPT ![user_id].usd = @ - amount]
    ELSE [f EXCEPT ![user_id].base = @ - amount]

InsufficientFunds == {"Insufficient USD funds", "Insufficient BTC funds"}

(***************************************************************************)
(* C21. debit_funds_for_order fails exactly when the balance of the side   *)
(* is strictly less than the cost (Bid: usd < quantity * price, Ask: base  *)
(* < quantity) and succeeds, taking exactly the cost, when the balance     *)
(* equals it; when it fails POST /orders answers 400 and leaves every      *)
(* balance and the whole book, order_id_counter included, as they were.    *)
(***************************************************************************)
C21_Debit(user_id, side, quantity, price_tick, debit) ==
    /\ debit.ok = ~(Balance(funds, user_id, side)
                      < EntryCost(side, quantity, price_tick))
    /\ debit.funds = IF debit.ok
                     THEN Lowered(funds, user_id, side,
                                  EntryCost(side, quantity, price_tick))
                     ELSE funds
    /\ ~debit.ok =>
          \A tif \in TimeInForce :
             post_orders(Book, funds, user_id, price_tick, quantity, side, tif)
               = BadRequest(Book, funds, debit.message)

C21_Exact ==
    \A user_id \in Accounts, side \in OrderSide, quantity \in Quantities,
       price_tick \in Ticks :
       C21_Debit(user_id, side, quantity, price_tick,
                 debit_funds_for_order(funds, user_id, side, quantity, price_tick))

C21_Step ==
    (IsPost(last') /\ last'.message \in InsufficientFunds) =>
        /\ last'.status = 400
        /\ UNCHANGED <<ask_side, bid_side, order_id_counter, trade_id_counter,
                       total_orders, panic, funds>>

C21_InsufficientFunds == []C21_Exact /\ [][C21_Step]_vars

\* an order was refused for insufficient funds while an account holds base
\* but no USD at all
C21_Witness ==
    /\ IsPost(last)
    /\ last.message \in InsufficientFunds
    /\ \E u \in Accounts : funds[u].usd = 0 /\ funds[u].base > 0

\* a POST /orders for which the book returned (None, [])
PureReject(c) ==
    /\ IsPost(c)
    /\ c.message = "Order rejected"
    /\ ~c.order.is_some
    /\ c.trades = << >>

(***************************************************************************)
(* C22. when the book returns (None, []) for an order of POST /orders, the *)
(* entry debit (which was taken) is credited back in full: after the       *)
(* request every user's balances are what they were before it, and both    *)
(* sides of the book, so every resting order, are unchanged.               *)
(***************************************************************************)
C22_Step ==
    PureReject(last') =>
        /\ last'.funds_debited =
             Lowered(funds, last'.user_id, last'.side,
                     EntryCost(last'.side, last'.quantity, last'.price_tick))
        /\ funds' = funds
        /\ ask_side' = ask_side
        /\ bid_side' = bid_side
        /\ order_id_counter' = order_id_counter + 1
        /\ panic' = "none"

IocPartial(c) ==
    /\ IsPost(c)
    /\ c.time_in_force = "IOC"
    /\ ~c.order.is_some
    /\ c.trades # << >>
    /\ TradedQuantity(c.trades) < c.quantity

(***************************************************************************)
(* C23. when an IOC order of quantity Q at price P fills only f < Q, the   *)
(* refund that follows the settlements is exactly the unfilled residual    *)
(* (Bid: (Q - f) * P in USD, Ask: Q - f in base), not the full entry       *)
(* debit.                                                                  *)
(***************************************************************************)
C23_IocPartialRefund ==
    IocPartial(last) =>
        funds = handle_partial_fill_refund(last.funds_settled, last.user_id,
                    last.side, last.quantity - TradedQuantity(last.trades),
                    last.price_tick)

\* a POST /orders whose GTC limit order rests with a residual
RestsAfterPost(c) ==
    /\ IsPost(c)
    /\ c.time_in_force = "GTC"
    /\ c.price_tick > 0
    /\ c.order.is_some
    /\ Residual(c.order.v) > 0

(***************************************************************************)
(* C24. when a GTC limit order rests after its placement, partially filled *)
(* at entry or not, nothing is refunded for the resting residual: the      *)
(* ledger after the request is the ledger after the settlements, so the    *)
(* entry debit still covers the residual.                                  *)
(***************************************************************************)
C24_RestingCollateral ==
    RestsAfterPost(last) => funds = last.funds_settled

RECURSIVE TradedValue(_)
\* sum of quantity * trade price of a list of trades
TradedValue(ts) ==
    IF Len(ts) = 0 THEN 0
    ELSE cost_amount(Head(ts).quantity, Head(ts).price_tick) + TradedValue(Tail(ts))

\* what the taker of these trades owes: USD for a Bid, base for an Ask
Owed(side, ts) == IF side = "Bid" THEN TradedValue(ts) ELSE TradedQuantity(ts)

(***************************************************************************)
(* C25. every order POST /orders passes to the book, limit or market, was  *)
(* debited at entry at least what its taker owes for its fills (Bid: sum   *)
(* of quantity * trade price in USD, Ask: sum of quantity in base).        *)
(***************************************************************************)
C25_CollateralBeforeBook ==
    (IsPost(last) /\ last.trades # << >>) =>
        Owed(last.side, last.trades)
          <= EntryCost(last.side, last.quantity, last.price_tick)

(***************************************************************************)
(* C26. Market (price_tick = 0) GTC order: it never rests; with no live    *)
(* quantity on the opposite side add_order returns (None, []) and leaves   *)
(* both sides as they were; otherwise it sweeps the opposite side from the *)
(* best tick towards the worst and returns Some(order) with                *)
(* quantity_filled = min(quantity, total live opposite quantity), the      *)
(* trades summing to that amount and the residual being discarded.         *)
(***************************************************************************)
\* the prices of the trades move away from the best tick of the opposite side
C26_BestToWorst(side, trades, fills) ==
    /\ \A i \in 1..Len(trades) : fills[i] = Some(trades[i].price_tick)
    /\ \A i \in 1..Len(trades), j \in 1..Len(trades) :
          i < j => IF side = "Bid"
                   THEN trades[i].price_tick <= trades[j].price_tick
                   ELSE trades[i].price_tick >= trades[j].price_tick

C26_Swept(c, available) ==
    /\ c.order.is_some
    /\ c.order.v.quantity_filled = Min(c.quantity, available)
    /\ TradedQuantity(c.trades) = Min(c.quantity, available)
    /\ C26_BestToWorst(c.side, c.trades, c.fills)

C26_Step ==
    (IsAdd(last') /\ last'.price_tick = 0 /\ last'.time_in_force = "GTC") =>
        /\ panic' = "none"
        /\ \A s \in Stored(bid_side') \cup Stored(ask_side') :
              s.order.id # last'.order_id
        /\ SideOf(Book', last'.side) = SideOf(Book, last'.side)
        /\ IF C5_Available(Opposite(Book, last'.side), last'.side, 0,
                           DOMAIN Opposite(Book, last'.side).levels) = 0
           THEN /\ ~last'.order.is_some
                /\ last'.trades = << >>
                /\ ask_side' = ask_side /\ bid_side' = bid_side
           ELSE C26_Swept(last', C5_Available(Opposite(Book, last'.side),
                                    last'.side, 0,
                                    DOMAIN Opposite(Book, last'.side).levels))

C26_MarketGtc == [][C26_Step]_vars

\* a market GTC order took all there was, less than it asked for, and was
\* returned with its residual, which is stored nowhere
C26_Witness ==
    /\ IsAdd(last) /\ last.price_tick = 0 /\ last.time_in_force = "GTC"
    /\ last.order.is_some
    /\ last.trades # << >>
    /\ Residual(last.order.v) > 0
    /\ Stored(Opposite(Book, last.side)) = {}

\* a market GTC order swept two levels of the opposite side
C26_SweepWitness ==
    /\ IsAdd(last) /\ last.price_tick = 0 /\ last.time_in_force = "GTC"
    /\ Len(last.trades) = 2
    /\ last.trades[1].price_tick # last.trades[2].price_tick

(***************************************************************************)
(* C30. Fill accounting: for every add_order call with quantity > 0, each  *)
(* trade has quantity = min(taker residual, maker residual) > 0 and the    *)
(* "empty resting order" assertion is never reached; the trade quantities  *)
(* sum to the taker's quantity_filled <= quantity; each maker's            *)
(* quantity_filled grows by exactly its trade quantities and never exceeds *)
(* its quantity; the opposite side's total live quantity decreases by      *)
(* exactly the sum of the trade quantities.                                *)
(***************************************************************************)
\* the live quantity held by all the levels of a side
RECURSIVE C30_SideLive(_, _)
C30_SideLive(side, ticks) ==
    IF ticks = {} THEN 0
    ELSE LiveQuantity(side.levels[CHOOSE t \in ticks : TRUE].orders)
         + C30_SideLive(side, ticks \ {CHOOSE t \in ticks : TRUE})

\* the i-th trade fills the smaller of the two residuals left by the
\* trades before it; m is the maker as stored before the call
C30_TradeOk(c, i, m) ==
    /\ Live(m.order)
    /\ c.trades[i].quantity > 0
    /\ c.trades[i].quantity =
         Min(c.quantity - TradedQuantity(SubSeq(c.trades, 1, i - 1)),
             Residual(m.order) - TakenFrom(c.trades, i - 1, m.order.id))

\* a live order stored before the call is afterwards stored with its
\* quantity_filled grown by its trades, or gone when they filled it
C30_MakerOk(c, m, opp_after) ==
    /\ m.order.quantity_filled + TakenFrom(c.trades, Len(c.trades), m.order.id)
         <= m.order.quantity
    /\ IF Residual(m.order) = TakenFrom(c.trades, Len(c.trades), m.order.id)
       THEN \A s \in Stored(opp_after) : s.order.id # m.order.id
       ELSE \E s \in Stored(opp_after) :
               /\ s.order.id = m.order.id
               /\ s.order.quantity = m.order.quantity
               /\ s.order.quantity_filled =
                    m.order.quantity_filled
                      + TakenFrom(c.trades, Len(c.trades), m.order.id)

C30_Step ==
    (IsAdd(last') /\ last'.quantity > 0) =>
        /\ panic' = "none"
        /\ \A i \in 1..Len(last'.trades) :
              \E m \in Stored(Opposite(Book, last'.side)) :
                 /\ m.order.id = last'.trades[i].maker_order_id
                 /\ C30_TradeOk(last', i, m)
        /\ TradedQuantity(last'.trades) <= last'.quantity
        /\ last'.order.is_some =>
              /\ last'.order.v.quantity_filled = TradedQuantity(last'.trades)
              /\ last'.order.v.quantity = last'.quantity
        /\ \A m \in Stored(Opposite(Book, last'.side)) :
              Live(m.order) => C30_MakerOk(last', m, Opposite(Book', last'.side))
        /\ C30_SideLive(Opposite(Book, last'.side),
                        DOMAIN Opposite(Book, last'.side).levels)
             - TradedQuantity(last'.trades)
           = C30_SideLive(Opposite(Book', last'.side),
                          DOMAIN Opposite(Book', last'.side).levels)

C30_FillAccounting == [][C30_Step]_vars

\* a call made two trades and left its second maker partially filled in
\* the book
C30_Witness ==
    /\ IsAdd(last)
    /\ Len(last.trades) = 2
    /\ \E s \in Stored(Opposite(Book, last.side)) :
          /\ s.order.id = last.trades[2].maker_order_id
          /\ s.order.quantity_filled = last.trades[2].quantity
          /\ Residual(s.order) > 0

(***************************************************************************)
(* C27. Atomic order flow: for one order request the steps debit ->        *)
(* book.add_order -> settle each trade -> refund run as one critical       *)
(* section under the symbol's book lock: between a request's debit and its *)
(* final refund no other request performs a book operation or a ledger     *)
(* operation (a debit, a cancel, a settlement, a refund) on that symbol.   *)
(***************************************************************************)
\* task t has debited its order and not yet made its final refund
C27_InFlow(t) ==
    /\ req[t].op = "POST /orders"
    /\ pc[t] \in {"lock", "add_order", "settle", "refund"}

\* this step is a book operation or a ledger operation of task t
C27_Operates(t) ==
    /\ pc[t] \in {"debit", "add_order", "settle", "refund", "cancel_order",
                  "cancel_refund"}
    /\ pc'[t] # pc[t]
    /\ pc[t] \in {"refund", "cancel_refund"} => accounts' # accounts

C27_Step ==
    \A p \in Tasks, q \in Tasks :
        (p # q /\ C27_InFlow(p) /\ req[q].symbol = req[p].symbol)
            => ~C27_Operates(q)

C27_AtomicFlow == [][C27_Step]_vars

(***************************************************************************)
(* C28. Per-symbol locking: each symbol has its own lock, so a request     *)
(* that is to operate on one symbol's book is never blocked by a request   *)
(* that holds the lock for a different symbol.                             *)
(***************************************************************************)
\* task t is at a lock() of order_books that another task's guard blocks
C28_Blocked(t) ==
    /\ pc[t] \in {"tick_multiplier", "lock"}
    /\ order_books_lock \notin {0, t}

C28_PerSymbolLock ==
    \A t \in Tasks :
        C28_Blocked(t) => req[order_books_lock].symbol = req[t].symbol

(***************************************************************************)
(* C29. Trade notifications: after POST /orders executes a trade, the      *)
(* taker and the maker, each if it has an authenticated /notifications     *)
(* connection open, are sent a trade_fill notification for that trade,     *)
(* once only for a self-trade. The send is made by the request itself, so  *)
(* a notification that is in no channel when the request has answered is   *)
(* never received.                                                         *)
(***************************************************************************)
\* the places of channel ch that hold a trade_fill of this trade
C29_Sent(ch, trade) ==
    {i \in 1..Len(ch) : ch[i].type = "trade_fill" /\ ch[i].trade = trade}

\* user_id, if connected, has exactly one trade_fill of the trade in the
\* channel of one of its connections
C29_Notified(user_id, trade) ==
    (\E k \in Sockets : sockets[k] = user_id) =>
        \E k \in Sockets :
            /\ sockets[k] = user_id
            /\ Cardinality(C29_Sent(channel'[k], trade)) = 1

C29_Step ==
    (IsPost(last') /\ last' # last /\ last'.trades # << >>) =>
        \A i \in 1..Len(last'.trades) :
            /\ C29_Notified(last'.trades[i].taker_user_id, last'.trades[i])
            /\ C29_Notified(last'.trades[i].maker_user_id, last'.trades[i])

C29_TradeNotifications == [][C29_Step]_vars

(***************************************************************************)
(* C31. Order-id allocation: every add_order call advances                 *)
(* order_id_counter by exactly one whatever it returns, the IOC/FOK calls  *)
(* refused for an empty opposite side and the FOK calls refused by the     *)
(* feasibility test included, so a refused order consumes an id and the    *)
(* order accepted next skips it; cancel_order and get_depth change neither *)
(* counter.                                                                *)
(***************************************************************************)
\* an add_order call the book refused without a trade
C31_Refused(c) == IsAdd(c) /\ ~c.order.is_some /\ c.trades = << >>

C31_Step ==
    /\ IsAdd(last') =>
          /\ order_id_counter' = order_id_counter + 1
          /\ last'.order_id = order_id_counter
          /\ last'.order.is_some => last'.order.v.id = order_id_counter
          /\ (C31_Refused(last) /\ last'.order.is_some) =>
                last'.order.v.id = last.order_id + 1
    /\ (IsCancel(last') \/ IsDepth(last')) =>
          /\ order_id_counter' = order_id_counter
          /\ trade_id_counter' = trade_id_counter

C31_IdAllocation == [][C31_Step]_vars

\* a FOK order was refused by the feasibility test, the opposite side
\* holding orders, and its id is spent
C31_Witness ==
    /\ C31_Refused(last)
    /\ last.time_in_force = "FOK"
    /\ Stored(Opposite(Book, last.side)) # {}
    /\ order_id_counter = last.order_id + 1

(***************************************************************************)
(* C32. Uncrossed book: after every add_order and cancel_order, if both    *)
(* sides hold levels then the best bid tick is below the best ask tick; a  *)
(* GTC limit order's residual rests only once every opposite level within  *)
(* its limit price has been consumed.                                      *)
(***************************************************************************)
C32_Uncrossed ==
    (DOMAIN bid_side.levels # {} /\ DOMAIN ask_side.levels # {}) =>
        /\ bid_side.best_tick.is_some /\ ask_side.best_tick.is_some
        /\ bid_side.best_tick.v < ask_side.best_tick.v
        /\ SetMax(DOMAIN bid_side.levels) < SetMin(DOMAIN ask_side.levels)

\* the taker of this call was put in the book with a residual
C32_Rests(c) ==
    /\ IsAdd(c) /\ c.time_in_force = "GTC" /\ c.price_tick > 0
    /\ c.order.is_some /\ Residual(c.order.v) > 0

C32_Step ==
    C32_Rests(last') =>
        /\ \E s \in Stored(SideOf(Book', last'.side)) :
              s.order.id = last'.order_id /\ s.tick = last'.price_tick
        /\ \A t \in DOMAIN Opposite(Book', last'.side).levels :
              ~Matchable(last'.side, last'.price_tick, t)

C32_UncrossedBook == []C32_Uncrossed /\ [][C32_Step]_vars

\* a limit order consumed a crossing level and rests with its residual
\* beside an opposite level beyond its limit
C32_Witness ==
    /\ C32_Rests(last)
    /\ last.trades # << >>
    /\ DOMAIN Opposite(Book, last.side).levels # {}

(***************************************************************************)
(* C33. Cancel finds every live order: in every reachable state each       *)
(* level's queue is strictly increasing in order id from front to back, so *)
(* the binary search by id of cancel_order is valid, and cancel_order(id,  *)
(* price_tick, side) returns true for every live resting order addressed   *)
(* by its own id, price and side.                                          *)
(***************************************************************************)
C33_Sorted(side) ==
    \A t \in DOMAIN side.levels :
        \A i \in 1..Len(side.levels[t].orders), j \in 1..Len(side.levels[t].orders) :
            i < j => side.levels[t].orders[i].id < side.levels[t].orders[j].id

\* the search finds every stored order at its position, and cancel_order
\* succeeds on the live ones under both overflow profiles
C33_Found(side, name) ==
    \A s \in Stored(side) :
        /\ s.order.price_tick = s.tick /\ s.order.side = name
        /\ binary_search_by_key(side.levels[s.tick].orders, s.order.id)
             = Some(s.pos - 1)
        /\ Live(s.order) =>
              \A c \in cancel_outcomes(Book, s.order.id, s.tick, name) :
                  c.ok /\ c.panic = "none"

C33_CancelFindsLive ==
    panic = "none" =>
        /\ C33_Sorted(bid_side) /\ C33_Sorted(ask_side)
        /\ C33_Found(bid_side, "Bid") /\ C33_Found(ask_side, "Ask")

\* cancel_order returned true for the middle order of a queue of three
C33_Witness ==
    /\ IsCancel(last) /\ last.ok
    /\ \E s \in Stored(SideOf(Book, last.side)) :
          /\ s.order.id = last.order_id
          /\ s.pos = 2
          /\ ~Live(s.order)
          /\ Len(SideOf(Book, last.side).levels[s.tick].orders) = 3

(***************************************************************************)
(* C34. No unsigned underflow in cancel_order: in every reachable state    *)
(* and for every order the id search can find in a level, live or already  *)
(* cancelled, the level's total_quantity is at least the order's residual, *)
(* so total_quantity - (quantity - quantity_filled) does not underflow;    *)
(* and total_orders - 1 is computed only when total_orders >= 1.           *)
(***************************************************************************)
C34_SideOk(side) ==
    \A s \in Stored(side) :
        /\ side.levels[s.tick].total_quantity >= Residual(s.order)
        /\ Live(s.order) => total_orders >= 1

C34_NoUnderflow ==
    panic = "none" => (C34_SideOk(bid_side) /\ C34_SideOk(ask_side))

(***************************************************************************)
(* C35. Cancel ownership: DELETE /orders/{id} succeeds only for an order   *)
(* owned by the authenticated requester, and what it refunds is credited   *)
(* to the order's owner: a user cancelling an order placed by another user *)
(* never takes that order out of the book and never raises any of its own  *)
(* balances.                                                               *)
(***************************************************************************)
\* the live orders of the book the request c addresses
C35_Addressed(c) ==
    {s \in Stored(SideOf(Book, c.side)) :
        s.order.id = c.order_id /\ s.tick = c.price_tick /\ Live(s.order)}

C35_Step ==
    (IsDelete(last') /\ last'.status = 200) =>
        \A s \in C35_Addressed(last') :
            /\ s.order.user_id = last'.user_id
            /\ \A u \in Accounts \ {s.order.user_id} : funds'[u] = funds[u]

C35_CancelOwnership == [][C35_Step]_vars

(***************************************************************************)
(* C36. Reject means nothing happened: whenever POST /orders answers 400   *)
(* (success = false), the request made no trade, no resting order of any   *)
(* user was filled or removed, and every user's balances are what they     *)
(* were before the request.                                                *)
(***************************************************************************)
C36_Step ==
    (IsPost(last') /\ last'.status = 400) =>
        /\ last'.trades = << >>
        /\ ask_side' = ask_side
        /\ bid_side' = bid_side
        /\ funds' = funds

C36_RejectIsNoOp == [][C36_Step]_vars

(***************************************************************************)
(* C37. No double spend under concurrency: debit_funds_for_order checks    *)
(* and subtracts under one hold of the ledger lock, so under any           *)
(* interleaving of concurrent order requests the entry debits alone never  *)
(* drive a balance below zero: two orders of one user whose combined cost  *)
(* exceeds the balance cannot both pass the funds check.                   *)
(***************************************************************************)
\* task t has passed the funds check and nothing of its order is settled
\* or refunded yet
C37_Passed(t) == req[t].op = "POST /orders" /\ pc[t] \in {"lock", "add_order"}

\* what the passed orders of tasks ts took from user_id in USD (asset "usd")
\* or in the base asset of a symbol
RECURSIVE C37_Taken(_, _, _)
C37_Taken(ts, user_id, asset) ==
    IF ts = {} THEN 0
    ELSE (IF /\ C37_Passed(CHOOSE t \in ts : TRUE)
             /\ req[CHOOSE t \in ts : TRUE].user_id = user_id
             /\ asset = (IF req[CHOOSE t \in ts : TRUE].side = "Bid" THEN "usd"
                         ELSE req[CHOOSE t \in ts : TRUE].symbol)
          THEN EntryCost(req[CHOOSE t \in ts : TRUE].side,
                         req[CHOOSE t \in ts : TRUE].quantity,
                         req[CHOOSE t \in ts : TRUE].price_tick)
          ELSE 0)
         + C37_Taken(ts \ {CHOOSE t \in ts : TRUE}, user_id, asset)

\* no task has settled, refunded or cancelled: the ledger holds the entry
\* debits alone
C37_EntryOnly ==
    \A t \in Tasks : pc[t] \in {"idle", "tick_multiplier", "debit", "lock", "add_order"}

C37_NoDoubleSpend ==
    C37_EntryOnly =>
        \A u \in Accounts :
            /\ accounts[u].usd = InitialUsd - C37_Taken(Tasks, u, "usd")
            /\ accounts[u].btc = InitialBase - C37_Taken(Tasks, u, "BTC-USD")
            /\ accounts[u].sol = InitialBase - C37_Taken(Tasks, u, "SOL-USD")
            /\ accounts[u].usd >= 0 /\ accounts[u].btc >= 0 /\ accounts[u].sol >= 0

\* one order of a user took the user's whole USD balance and is waiting for
\* the book, while a concurrent order of the same user is at its funds check
C37_Witness ==
    \E p \in Tasks, q \in Tasks :
        /\ p # q
        /\ C37_Passed(p) /\ req[p].side = "Bid"
        /\ req[q].user_id = req[p].user_id
        /\ accounts[req[p].user_id].usd = 0
        /\ pc[q] = "debit"

(***************************************************************************)
(* C39. Notification registration: while a user has at least one open      *)
(* authenticated /notifications connection, the notification manager holds *)
(* a sender for that user whose receiver belongs to an open connection of  *)
(* that user (whichever of two connections of the user is closed, the      *)
(* remaining one stays registered), and a user without an open connection  *)
(* has no entry.                                                           *)
(***************************************************************************)
\* the connections of user_id that are open
C39_Open(user_id) == {k \in Sockets : sockets[k] = user_id}

C39_Registration ==
    \A user_id \in Accounts :
        IF C39_Open(user_id) # {}
        THEN notification_manager[user_id] \in C39_Open(user_id)
        ELSE notification_manager[user_id] = 0

(***************************************************************************)
(* C38. Deadlock freedom: under any interleaving of concurrent place,      *)
(* cancel, depth, markets, profile and login requests, the Mutexes are     *)
(* only nested in the order order_books then accounts: a task that locks   *)
(* order_books or the notification manager holds no guard, a task that     *)
(* locks accounts holds at most the guard of order_books, and a request    *)
(* that has been answered holds none. So every request that has arrived    *)
(* is eventually answered or has panicked (a /notifications socket may     *)
(* stay open as long as its client likes).                                 *)
(***************************************************************************)
\* the Mutex the task is about to lock, or "none"
C38_Wants(t) ==
    CASE pc[t] \in {"tick_multiplier", "lock"} -> "order_books"
      [] pc[t] \in {"auth", "debit", "settle", "refund", "cancel_refund",
                    "get_or_create_account"} -> "accounts"
      [] pc[t] \in {"insert", "remove"} -> "notification_manager"
      [] OTHER -> "none"

C38_Nesting ==
    \A t \in Tasks :
        pc[t] # "panicked" =>
            /\ C38_Wants(t) = "order_books" => Held(t) = {}
            /\ C38_Wants(t) = "accounts" => Held(t) \subseteq {"order_books"}
            /\ C38_Wants(t) = "notification_manager" => Held(t) = {}
            /\ pc[t] \in {"idle", "responded"} => Held(t) = {}

C38_Completes ==
    \A t \in Tasks :
        (pc[t] \notin {"idle", "open"}) ~> (pc[t] \in {"responded", "panicked", "open"})

C38_DeadlockFreedom == []C38_Nesting /\ C38_Completes

\* one task holds the guards of order_books and accounts, nested, while
\* another waits for order_books
C38_Witness ==
    \E p \in Tasks, q \in Tasks :
        /\ p # q
        /\ Held(p) = {"order_books", "accounts"}
        /\ C38_Wants(q) = "order_books"

====
